---- MODULE Spec2Model ----
(***************************************************************************)
(* A model of jrockway/json-logs: the per-line loop of ReadLog with its    *)
(* deferred flush / recover handlers, InputSchema.ReadLine, the filter     *)
(* scheme, the context window and OutputSchema.Emit.                       *)
(*                                                                         *)
(* Bytes are modelled at token granularity: the formatter's output for a   *)
(* record is a sequence of tokens (level, time, message, one per field,    *)
(* newline), a raw echo is the token RAW followed by the newline token.    *)
(* JSON values are records [ty, s, o]: the JSON type, the canonical        *)
(* serialization of a scalar, and the members of an object.                *)
(***************************************************************************)
EXTENDS Integers, Sequences, FiniteSets, TLC

(***************************************************************************)
(* Bounds of the model.                                                    *)
(***************************************************************************)
MaxLines == 4
MaxBefore == 1
MaxAfter == 1
MaxShortWrite == 1
MaxFed == 7
MaxWindow == 2
MaxGuessLines == 3
MaxAdds == 3
MaxEmits == 3
MaxReads == 3
MaxSignals == 2

(***************************************************************************)
(* Levels (parse.go, const block).                                         *)
(***************************************************************************)
LevelUnknown == 0
LevelTrace == 1
LevelDebug == 2
LevelInfo == 3
LevelWarn == 4
LevelError == 5
LevelPanic == 6
LevelDPanic == 7
LevelFatal == 8

(***************************************************************************)
(* JSON values and field maps (map[string]interface{}).                    *)
(***************************************************************************)
NoFields == [k \in {} |-> 0]

Has(f, k) == k \in DOMAIN f

Del(f, k) == [x \in (DOMAIN f) \ {k} |-> f[x]]

Put(f, k, v) == [x \in (DOMAIN f) \cup {k} |-> IF x = k THEN v ELSE f[x]]

Num(s) == [ty |-> "number", s |-> s, o |-> NoFields]

Str(s) == [ty |-> "string", s |-> s, o |-> NoFields]

Bool(s) == [ty |-> "bool", s |-> s, o |-> NoFields]

Obj(s, o) == [ty |-> "object", s |-> s, o |-> o]

\* Keys in the order sort.Strings puts them.
SortedKeys ==
    <<"$1", "$2", "a", "b", "bar", "baz", "data", "foo", "l", "level", "m", "message", "msg",
      "state", "t", "time", "ts", "v">>

(***************************************************************************)
(* Input rows.  text is the row's bytes; brace says whether the first byte *)
(* is '{'; isObj whether json.Unmarshal into a map succeeds, and obj is    *)
(* then the decoded object.                                                *)
(***************************************************************************)
Row(text, brace, isObj, obj) == [text |-> text, brace |-> brace, isObj |-> isObj, obj |-> obj]

F4(k1, v1, k2, v2, k3, v3, k4, v4) == Put(Put(Put(Put(NoFields, k1, v1), k2, v2), k3, v3), k4, v4)

RowText == Row("oops", FALSE, FALSE, NoFields)

RowGood == Row("{t:1,l:info,m:hi,a:1}", TRUE, TRUE,
               F4("t", Num("1"), "l", Str("info"), "m", Str("hi"), "a", Num("1")))

RowOther == Row("{t:2,l:warn,m:yo,a:2}", TRUE, TRUE,
                F4("t", Num("2"), "l", Str("warn"), "m", Str("yo"), "a", Num("2")))

RowPanic == Row("{t:1,l:info,m:hi,a:2,b:panic}", TRUE, TRUE,
                Put(F4("t", Num("1"), "l", Str("info"), "m", Str("hi"), "a", Num("2")), "b", Str("panic")))

\* What the scanner hands over when the source fails in the middle of a row.
RowTrunc == Row("{t:1,l:", TRUE, FALSE, NoFields)

Rows == {RowText, RowGood, RowOther, RowPanic}

(***************************************************************************)
(* line and line.reset (parse.go).  ln is the number of the input row the  *)
(* line was read from; the program does not store it in the line.          *)
(***************************************************************************)
ZeroTime == ""

reset(raw, ln) ==
    [time |-> ZeroTime, msg |-> "", lvl |-> LevelUnknown, raw |-> raw.text,
     highlight |-> FALSE, fields |-> NoFields, isSeparator |-> FALSE, ln |-> ln]

Separator ==
    [time |-> ZeroTime, msg |-> "", lvl |-> LevelUnknown, raw |-> "",
     highlight |-> FALSE, fields |-> NoFields, isSeparator |-> TRUE, ln |-> 0]

(***************************************************************************)
(* Time and level parsers.  A parse result is [ok, v].                     *)
(***************************************************************************)
RFC3339Strings == {"2020-01-01T00:00:00Z"}

FloatStrings == {"1", "2", "666"}

basicTimeParser(x) ==
    IF x.ty = "number" THEN [ok |-> TRUE, v |-> x.s] ELSE [ok |-> FALSE, v |-> ZeroTime]

StrictUnixTimeParser(x) ==
    CASE x.ty = "number" -> [ok |-> TRUE, v |-> x.s]
      [] x.ty = "string" -> IF x.s \in FloatStrings THEN [ok |-> TRUE, v |-> x.s]
                            ELSE [ok |-> FALSE, v |-> ZeroTime]
      [] OTHER -> [ok |-> FALSE, v |-> ZeroTime]

DefaultTimeParser(x) ==
    CASE x.ty = "number" -> [ok |-> TRUE, v |-> x.s]
      [] x.ty = "string" -> IF x.s \in RFC3339Strings THEN [ok |-> TRUE, v |-> x.s]
                            ELSE [ok |-> FALSE, v |-> ZeroTime]
      [] x.ty = "object" ->
            IF /\ Has(x.o, "seconds") /\ x.o["seconds"].ty = "number"
               /\ Has(x.o, "nanos") /\ x.o["nanos"].ty = "number"
            THEN [ok |-> TRUE, v |-> x.o["seconds"].s]
            ELSE [ok |-> FALSE, v |-> ZeroTime]
      [] OTHER -> [ok |-> FALSE, v |-> ZeroTime]

DefaultLevelParser(x) ==
    IF x.ty # "string" THEN [ok |-> FALSE, v |-> LevelUnknown]
    ELSE CASE x.s \in {"trace", "TRACE"} -> [ok |-> TRUE, v |-> LevelTrace]
           [] x.s \in {"debug", "DEBUG"} -> [ok |-> TRUE, v |-> LevelDebug]
           [] x.s \in {"info", "INFO"} -> [ok |-> TRUE, v |-> LevelInfo]
           [] x.s \in {"warn", "WARN"} -> [ok |-> TRUE, v |-> LevelWarn]
           [] x.s \in {"error", "ERROR"} -> [ok |-> TRUE, v |-> LevelError]
           [] x.s \in {"panic", "PANIC"} -> [ok |-> TRUE, v |-> LevelPanic]
           [] x.s \in {"dpanic", "DPANIC"} -> [ok |-> TRUE, v |-> LevelDPanic]
           [] x.s \in {"fatal", "FATAL"} -> [ok |-> TRUE, v |-> LevelFatal]
           [] OTHER -> [ok |-> TRUE, v |-> LevelUnknown]

LagerLevelParser(x) ==
    IF x.ty # "number" THEN [ok |-> FALSE, v |-> LevelUnknown]
    ELSE CASE x.s = "0" -> [ok |-> TRUE, v |-> LevelDebug]
           [] x.s = "1" -> [ok |-> TRUE, v |-> LevelInfo]
           [] x.s = "2" -> [ok |-> TRUE, v |-> LevelError]
           [] x.s = "3" -> [ok |-> TRUE, v |-> LevelFatal]
           [] OTHER -> [ok |-> FALSE, v |-> LevelUnknown]

\* Modelled from the table of TestLevelParsers.
BunyanV0LevelParser(x) ==
    IF x.ty # "number" THEN [ok |-> FALSE, v |-> LevelUnknown]
    ELSE CASE x.s = "10" -> [ok |-> TRUE, v |-> LevelTrace]
           [] x.s = "20" -> [ok |-> TRUE, v |-> LevelDebug]
           [] x.s = "30" -> [ok |-> TRUE, v |-> LevelInfo]
           [] x.s = "40" -> [ok |-> TRUE, v |-> LevelWarn]
           [] x.s = "50" -> [ok |-> TRUE, v |-> LevelError]
           [] x.s = "60" -> [ok |-> TRUE, v |-> LevelFatal]
           [] OTHER -> [ok |-> FALSE, v |-> LevelUnknown]

\* s.TimeFormat(raw) / s.LevelFormat(lvl): the schema names the parser.
TimeFormat(name, x) ==
    CASE name = "basicTimeParser" -> basicTimeParser(x)
      [] name = "StrictUnixTimeParser" -> StrictUnixTimeParser(x)
      [] OTHER -> DefaultTimeParser(x)

LevelFormat(name, x) ==
    CASE name = "LagerLevelParser" -> LagerLevelParser(x)
      [] name = "BunyanV0LevelParser" -> BunyanV0LevelParser(x)
      [] OTHER -> DefaultLevelParser(x)

(***************************************************************************)
(* InputSchema.  A parser field holds the parser's name, "nil" when unset. *)
(***************************************************************************)
InputSchema(strict) ==
    [TimeKey |-> "t", TimeFormat |-> "basicTimeParser",
     LevelKey |-> "l", LevelFormat |-> "DefaultLevelParser",
     MessageKey |-> "m",
     NoTimeKey |-> FALSE, NoLevelKey |-> FALSE, NoMessageKey |-> FALSE,
     Strict |-> strict, DeleteKeys |-> <<>>, UpgradeKeys |-> <<>>]

SetKeys(s, tk, tf, lk, lf, mk) ==
    [s EXCEPT !.TimeKey = tk, !.TimeFormat = tf, !.LevelKey = lk, !.LevelFormat = lf,
              !.MessageKey = mk]

\* guessDisabled that looks at the time key only.
guessDisabled_TimeKeyOnly(s) == s.TimeKey # ""

\* guessDisabled that looks at the no-key options only.
guessDisabled_OptionsOnly(s) == s.NoTimeKey \/ s.NoLevelKey \/ s.NoMessageKey

\* The two early returns of guessSchema: a key is set, or a no-key option is.
guessDisabled(s) ==
    \/ s.TimeKey # "" \/ s.LevelKey # "" \/ s.MessageKey # ""
    \/ s.NoTimeKey \/ s.NoLevelKey \/ s.NoMessageKey

\* guessSchema that tries the plain time+level+msg row ahead of the bunyan row.
guessSchema_PlainBeforeBunyan(s, f) ==
    IF guessDisabled(s) THEN s
    ELSE IF Has(f, "ts") /\ Has(f, "level") /\ Has(f, "msg")
         THEN SetKeys(s, "ts", "StrictUnixTimeParser", "level", "DefaultLevelParser", "msg")
    ELSE IF Has(f, "timestamp") /\ Has(f, "severity") /\ Has(f, "message")
         THEN SetKeys(s, "timestamp", "DefaultTimeParser", "severity", "DefaultLevelParser", "message")
    ELSE IF Has(f, "time") /\ Has(f, "severity") /\ Has(f, "message")
         THEN SetKeys(s, "time", "DefaultTimeParser", "severity", "DefaultLevelParser", "message")
    ELSE IF Has(f, "time") /\ Has(f, "level") /\ Has(f, "msg")
         THEN SetKeys(s, "time", "DefaultTimeParser", "level", "DefaultLevelParser", "msg")
    ELSE IF /\ Has(f, "time") /\ Has(f, "level") /\ Has(f, "v") /\ Has(f, "msg")
            /\ f["v"].ty = "number" /\ f["v"].s = "0"
         THEN [SetKeys(s, "time", "DefaultTimeParser", "level", "BunyanV0LevelParser", "msg")
                 EXCEPT !.DeleteKeys = Append(s.DeleteKeys, "v")]
    ELSE IF /\ Cardinality(DOMAIN f) = 5 /\ Has(f, "timestamp") /\ Has(f, "level")
            /\ Has(f, "message") /\ Has(f, "data") /\ Has(f, "source")
         THEN [SetKeys(s, "timestamp", "DefaultTimeParser", "level", "DefaultLevelParser", "message")
                 EXCEPT !.UpgradeKeys = Append(s.UpgradeKeys, "data")]
    ELSE IF /\ Cardinality(DOMAIN f) = 5 /\ Has(f, "timestamp") /\ Has(f, "log_level")
            /\ Has(f, "message") /\ Has(f, "data") /\ Has(f, "source")
         THEN [SetKeys(s, "timestamp", "StrictUnixTimeParser", "log_level", "LagerLevelParser", "message")
                 EXCEPT !.UpgradeKeys = Append(s.UpgradeKeys, "data")]
    ELSE IF Has(f, "ts") /\ Has(f, "message") /\ Has(f, "workerId") /\ Has(f, "pipelineName")
         THEN [s EXCEPT !.TimeKey = "ts", !.TimeFormat = "DefaultTimeParser",
                        !.NoLevelKey = TRUE, !.MessageKey = "message"]
    ELSE s

\* InputSchema.guessSchema: the schema after looking at the decoded fields f.
guessSchema(s, f) ==
    IF guessDisabled(s) THEN s
    ELSE IF Has(f, "ts") /\ Has(f, "level") /\ Has(f, "msg")
         THEN SetKeys(s, "ts", "StrictUnixTimeParser", "level", "DefaultLevelParser", "msg")
    ELSE IF Has(f, "timestamp") /\ Has(f, "severity") /\ Has(f, "message")
         THEN SetKeys(s, "timestamp", "DefaultTimeParser", "severity", "DefaultLevelParser", "message")
    ELSE IF Has(f, "time") /\ Has(f, "severity") /\ Has(f, "message")
         THEN SetKeys(s, "time", "DefaultTimeParser", "severity", "DefaultLevelParser", "message")
    ELSE IF /\ Has(f, "time") /\ Has(f, "level") /\ Has(f, "v") /\ Has(f, "msg")
            /\ f["v"].ty = "number" /\ f["v"].s = "0"
         THEN [SetKeys(s, "time", "DefaultTimeParser", "level", "BunyanV0LevelParser", "msg")
                 EXCEPT !.DeleteKeys = Append(s.DeleteKeys, "v")]
    ELSE IF Has(f, "time") /\ Has(f, "level") /\ Has(f, "msg")
         THEN SetKeys(s, "time", "DefaultTimeParser", "level", "DefaultLevelParser", "msg")
    ELSE IF /\ Cardinality(DOMAIN f) = 5 /\ Has(f, "timestamp") /\ Has(f, "level")
            /\ Has(f, "message") /\ Has(f, "data") /\ Has(f, "source")
         THEN [SetKeys(s, "timestamp", "DefaultTimeParser", "level", "DefaultLevelParser", "message")
                 EXCEPT !.UpgradeKeys = Append(s.UpgradeKeys, "data")]
    ELSE IF /\ Cardinality(DOMAIN f) = 5 /\ Has(f, "timestamp") /\ Has(f, "log_level")
            /\ Has(f, "message") /\ Has(f, "data") /\ Has(f, "source")
         THEN [SetKeys(s, "timestamp", "StrictUnixTimeParser", "log_level", "LagerLevelParser", "message")
                 EXCEPT !.UpgradeKeys = Append(s.UpgradeKeys, "data")]
    ELSE IF Has(f, "ts") /\ Has(f, "message") /\ Has(f, "workerId") /\ Has(f, "pipelineName")
         THEN [s EXCEPT !.TimeKey = "ts", !.TimeFormat = "DefaultTimeParser",
                        !.NoLevelKey = TRUE, !.MessageKey = "message"]
    ELSE s

\* mergeUpgrade that merges the members first and deletes the key afterwards.
mergeUpgrade_DeleteLast(f, name) ==
    Del([k \in (DOMAIN f) \cup (DOMAIN f[name].o) |->
            IF k \in DOMAIN f[name].o THEN f[name].o[k] ELSE f[k]], name)

\* The fields once the object under the key name is merged into them: the key is
\* deleted first, then each member is assigned.
mergeUpgrade(f, name) ==
    [k \in (DOMAIN Del(f, name)) \cup (DOMAIN f[name].o) |->
        IF k \in DOMAIN f[name].o THEN f[name].o[k] ELSE f[k]]

\* The body of the loop over s.UpgradeKeys of ReadLine, for the key name.
upgrade(s, r, name) ==
    IF ~Has(r.l.fields, name) THEN r
    ELSE IF r.l.fields[name].ty = "object"
         THEN [r EXCEPT !.l.fields = mergeUpgrade(r.l.fields, name)]
         ELSE IF s.Strict THEN [r EXCEPT !.err = Append(r.err, "upgrade key")]
              ELSE r

\* The loop over s.UpgradeKeys of ReadLine, from index i on.  r is [l, err].
RECURSIVE upgradeKeys(_, _, _)
upgradeKeys(s, r, i) ==
    IF i > Len(s.UpgradeKeys) THEN r
    ELSE upgradeKeys(s, upgrade(s, r, s.UpgradeKeys[i]), i + 1)

\* The loop over s.DeleteKeys of ReadLine.
RECURSIVE deleteKeys(_, _, _)
deleteKeys(ks, f, i) ==
    IF i > Len(ks) THEN f ELSE deleteKeys(ks, Del(f, ks[i]), i + 1)

\* json.Unmarshal of the row into l.fields: [l, err], err the chain of pushed
\* errors (<<>> is nil).
unmarshal(s0, l0, raw) ==
    IF raw.isObj THEN [l |-> [l0 EXCEPT !.fields = raw.obj], err |-> <<>>]
    ELSE [l |-> IF ~s0.Strict THEN [l0 EXCEPT !.msg = raw.text] ELSE l0,
          err |-> <<"unmarshal json">>]

\* The time key of ReadLine.
readTime(s, r) ==
    IF s.NoTimeKey THEN r
    ELSE IF s.TimeFormat # "nil" /\ Has(r.l.fields, s.TimeKey)
         THEN LET p == TimeFormat(s.TimeFormat, r.l.fields[s.TimeKey])
              IN IF ~p.ok THEN [r EXCEPT !.err = Append(r.err, "parse time")]
                 ELSE [r EXCEPT !.l.fields = Del(r.l.fields, s.TimeKey), !.l.time = p.v]
         ELSE [r EXCEPT !.err = Append(r.err, "no time key")]

\* The message key of ReadLine.
readMessage(s, r, raw) ==
    IF s.NoMessageKey THEN r
    ELSE IF Has(r.l.fields, s.MessageKey)
         THEN LET msg == r.l.fields[s.MessageKey]
              IN IF msg.ty = "string"
                 THEN [r EXCEPT !.l.msg = msg.s, !.l.fields = Del(r.l.fields, s.MessageKey)]
                 ELSE [r EXCEPT !.l.msg = raw.text,
                                !.err = Append(r.err, "message key contains non-string data")]
         ELSE [r EXCEPT !.err = Append(r.err, "no message key")]

\* The level key of ReadLine.
readLevel(s, r) ==
    IF s.NoLevelKey THEN r
    ELSE IF s.LevelFormat # "nil" /\ Has(r.l.fields, s.LevelKey)
         THEN LET p == LevelFormat(s.LevelFormat, r.l.fields[s.LevelKey])
              IN IF ~p.ok THEN [r EXCEPT !.err = Append(r.err, "level key")]
                 ELSE [r EXCEPT !.l.lvl = p.v, !.l.fields = Del(r.l.fields, s.LevelKey)]
         ELSE [r EXCEPT !.err = Append(r.err, "no level key")]

\* The end of ReadLine: the keys to delete, and the error returned.
readDone(s, r) ==
    [l |-> [r.l EXCEPT !.fields = deleteKeys(s.DeleteKeys, r.l.fields, 1)],
     err |-> r.err, s |-> s]

\* readKeys that stops at the first key that is missing or does not parse.
readKeys_StopAtFirstError(s, r, raw) ==
    IF readTime(s, r).err # r.err THEN readDone(s, readTime(s, r))
    ELSE IF readMessage(s, r, raw).err # r.err THEN readDone(s, readMessage(s, readTime(s, r), raw))
    ELSE readDone(s, upgradeKeys(s, readLevel(s, readMessage(s, readTime(s, r), raw)), 1))

\* ReadLine from the time key on, s the schema guessSchema left.
readKeys(s, r, raw) ==
    readDone(s, upgradeKeys(s, readLevel(s, readMessage(s, readTime(s, r), raw)), 1))

\* ReadLine once the row is unmarshalled.
readFields(s0, r, raw) == readKeys(guessSchema(s0, r.l.fields), r, raw)

\* InputSchema.ReadLine: [l, err, s], err the chain of pushed errors (<<>> is nil)
\* and s the schema, which guessSchema may have set.
ReadLine(s0, l0, raw) ==
    IF ~s0.Strict /\ ((raw.text # "" /\ ~raw.brace) \/ raw.text = "")
    THEN [l |-> [l0 EXCEPT !.time = ZeroTime, !.msg = raw.text],
          err |-> <<"not a JSON object">>, s |-> s0]
    ELSE readFields(s0, unmarshal(s0, l0, raw), raw)

(***************************************************************************)
(* Regular expressions.  A regexp input is [q, s]: the text s, inside      *)
(* double quotes when q (json.Marshal of a string).  The quotes matter to  *)
(* the anchored patterns of the model only.                                *)
(***************************************************************************)
Text(s) == [q |-> FALSE, s |-> s]

\* json.Marshal(v) as used by runRegexp; ok is FALSE when Marshal fails.
Marshal(v) == [ok |-> v.ty # "invalid", text |-> [q |-> v.ty = "string", s |-> v.s]]

\* rx.SubexpNames() without the entry for the whole match.
SubexpNames(rx) ==
    CASE rx = "(y)o" -> <<"">>
      [] rx = "(?P<state>h)(i)" -> <<"state", "">>
      [] rx = "^(a|b)$" -> <<"">>
      [] rx = "^([12])$" -> <<"">>
      [] OTHER -> <<>>

\* rx.FindStringSubmatch(input): <<>> when there is no match, else the whole match
\* followed by the groups.
FindStringSubmatch(rx, input) ==
    CASE rx = "hi" -> IF input.s = "hi" THEN <<"hi">> ELSE <<>>
      [] rx = "(y)o" -> IF input.s = "yo" THEN <<"yo", "y">> ELSE <<>>
      [] rx = "(?P<state>h)(i)" -> IF input.s = "hi" THEN <<"hi", "h", "i">> ELSE <<>>
      [] rx = "^(a|b)$" -> IF ~input.q /\ input.s \in {"a", "b"} THEN <<input.s, input.s>> ELSE <<>>
      [] rx = "^([12])$" -> IF ~input.q /\ input.s \in {"1", "2"} THEN <<input.s, input.s>> ELSE <<>>
      [] OTHER -> <<>>

GroupName(i) == IF i = 1 THEN "$1" ELSE "$2"

RECURSIVE putGroups(_, _, _, _)
putGroups(f, names, sub, i) ==
    IF i > Len(names) THEN f
    ELSE putGroups(Put(f, IF names[i] = "" THEN GroupName(i) ELSE names[i], Str(sub[i + 1])),
                   names, sub, i + 1)

\* applyRegexp that reports the match and writes no capture group.
applyRegexp_NoCaptures(rx, l, input) ==
    [found |-> Len(FindStringSubmatch(rx, input)) > 0, l |-> l]

\* applyRegexp: [found, l].
applyRegexp(rx, l, input) ==
    LET sub == FindStringSubmatch(rx, input)
    IN IF Len(sub) = 0 THEN [found |-> FALSE, l |-> l]
       ELSE [found |-> TRUE, l |-> [l EXCEPT !.fields = putGroups(l.fields, SubexpNames(rx), sub, 1)]]

RegexpScopeMessage == 1
RegexpScopeKeys == 2
RegexpScopeValues == 4

InScope(scope, bit) == (scope \div bit) % 2 = 1

\* runRegexp: the set of results [found, l] the iteration order of the field map allows.
runRegexp(rx, l, scope) ==
    LET viaMsg == applyRegexp(rx, l, Text(l.msg))
        keyHits == {k \in DOMAIN l.fields : applyRegexp(rx, l, Text(k)).found}
        valHits == {k \in DOMAIN l.fields :
                      Marshal(l.fields[k]).ok /\ applyRegexp(rx, l, Marshal(l.fields[k]).text).found}
        bad == {k \in DOMAIN l.fields : ~Marshal(l.fields[k]).ok}
    IN IF InScope(scope, RegexpScopeMessage) /\ viaMsg.found THEN {viaMsg}
       ELSE IF InScope(scope, RegexpScopeKeys) /\ keyHits # {}
            THEN {applyRegexp(rx, l, Text(k)) : k \in keyHits}
       ELSE IF InScope(scope, RegexpScopeValues) /\ valHits # {}
            THEN {applyRegexp(rx, l, Marshal(l.fields[k]).text) : k \in valHits}
       ELSE IF InScope(scope, RegexpScopeValues) /\ bad # {}
            THEN {[found |-> FALSE,
                   l |-> [l EXCEPT !.fields = Put(l.fields, "jlog_match_marshal_error", Str("error"))]]}
       ELSE {[found |-> FALSE, l |-> l]}

(***************************************************************************)
(* jq programs.  The engine is a collaborator: a program is known by its   *)
(* text and JQRun gives the sequence of results of running it on a line.   *)
(***************************************************************************)
highlightKey == "__highlight"

JQNull == [ty |-> "null", s |-> "null", o |-> NoFields]

JQError == [ty |-> "error", s |-> "goodbye", o |-> NoFields]

IsA(f, s) == Has(f, "a") /\ f["a"] = Num(s)

JQRun(prog, l) ==
    LET dot == Obj("", l.fields)
    IN CASE prog = "." -> <<dot>>
         [] prog = "select(.a==1)" -> IF IsA(l.fields, "1") THEN <<dot>> ELSE <<>>
         [] prog = "if .a==2 then null else . end" -> IF IsA(l.fields, "2") THEN <<JQNull>> ELSE <<dot>>
         [] prog = "if .a==2 then true else . end" -> IF IsA(l.fields, "2") THEN <<Bool("true")>> ELSE <<dot>>
         [] prog = "if .a==2 then 42 else . end" -> IF IsA(l.fields, "2") THEN <<Num("42")>> ELSE <<dot>>
         [] prog = "if .a==2 then error(\"goodbye\") else . end" -> IF IsA(l.fields, "2") THEN <<JQError>> ELSE <<dot>>
         [] prog = "if .a==2 then (.,.) else . end" -> IF IsA(l.fields, "2") THEN <<dot, dot>> ELSE <<dot>>
         [] prog = "highlight(.a==1)" ->
               <<Obj("", Put(l.fields, highlightKey, Bool(IF IsA(l.fields, "1") THEN "true" ELSE "false")))>>
         [] prog = "highlight(true)" -> <<Obj("", Put(l.fields, highlightKey, Bool("true")))>>
         [] prog = "empty" -> <<>>
         [] prog = "null" -> <<JQNull>>
         [] prog = "1 > 2" -> <<Bool("false")>>
         [] prog = "3.141592" -> <<Num("3.141592")>>
         [] prog = "error(\"goodbye\")" -> <<JQError>>
         [] prog = "{}" -> <<Obj("", NoFields)>>
         [] prog = "{}, {}" -> <<Obj("", NoFields), Obj("", NoFields)>>
         [] OTHER -> <<dot>>

\* jqResult that looks for a second result before it replaces the fields.
jqResult_ChecksCountFirst(l, iter) ==
    IF Len(iter) = 0 THEN [filtered |-> TRUE, err |-> "", l |-> l]
    ELSE LET x == iter[1]
         IN CASE x.ty = "object" ->
                   LET hl == IF Has(x.o, highlightKey) /\ x.o[highlightKey].ty = "bool"
                             THEN x.o[highlightKey].s = "true" ELSE l.highlight
                       l2 == [l EXCEPT !.highlight = hl, !.fields = Del(x.o, highlightKey)]
                   IN IF Len(iter) > 1
                      THEN [filtered |-> FALSE, err |-> "unexpectedly produced more than 1 output", l |-> l]
                      ELSE [filtered |-> FALSE, err |-> "", l |-> l2]
              [] x.ty = "null" -> [filtered |-> FALSE, err |-> "unexpected nil result", l |-> l]
              [] x.ty = "error" -> [filtered |-> FALSE, err |-> "error", l |-> l]
              [] x.ty = "bool" -> [filtered |-> FALSE, err |-> "unexpected boolean output", l |-> l]
              [] OTHER -> [filtered |-> FALSE, err |-> "unexpected result type", l |-> l]

\* runJQ once the program has run: iter is the sequence of its results.
jqResult(l, iter) ==
    IF Len(iter) = 0 THEN [filtered |-> TRUE, err |-> "", l |-> l]
    ELSE LET x == iter[1]
         IN CASE x.ty = "object" ->
                   LET hl == IF Has(x.o, highlightKey) /\ x.o[highlightKey].ty = "bool"
                             THEN x.o[highlightKey].s = "true" ELSE l.highlight
                       l2 == [l EXCEPT !.highlight = hl, !.fields = Del(x.o, highlightKey)]
                   IN IF Len(iter) > 1
                      THEN [filtered |-> FALSE, err |-> "unexpectedly produced more than 1 output", l |-> l2]
                      ELSE [filtered |-> FALSE, err |-> "", l |-> l2]
              [] x.ty = "null" -> [filtered |-> FALSE, err |-> "unexpected nil result", l |-> l]
              [] x.ty = "error" -> [filtered |-> FALSE, err |-> "error", l |-> l]
              [] x.ty = "bool" -> [filtered |-> FALSE, err |-> "unexpected boolean output", l |-> l]
              [] OTHER -> [filtered |-> FALSE, err |-> "unexpected result type", l |-> l]

\* FilterScheme.runJQ: [filtered, err, l]; err is "" for nil.
runJQ(f, l) ==
    IF f.JQ = "nil" THEN [filtered |-> FALSE, err |-> "", l |-> l]
    ELSE jqResult(l, JQRun(f.JQ, l))

\* runDone that returns what the program says, whatever the regexps said.
runDone_ProgramDecides(rxFiltered, j) ==
    IF j.err # "" THEN [filtered |-> FALSE, err |-> j.err, l |-> j.l]
    ELSE [filtered |-> j.filtered, err |-> "", l |-> j.l]

\* The end of FilterScheme.Run: j is the result of runJQ.
runDone(rxFiltered, j) ==
    IF j.err # "" THEN [filtered |-> FALSE, err |-> j.err, l |-> j.l]
    ELSE [filtered |-> rxFiltered \/ j.filtered, err |-> "", l |-> j.l]

\* FilterScheme.Run: the set of results [filtered, err, l].
Run(f, l) ==
    LET st1 == IF f.NoMatchRegex # "nil"
               THEN {[rxFiltered |-> r.found, l |-> r.l] : r \in runRegexp(f.NoMatchRegex, l, f.Scope)}
               ELSE {[rxFiltered |-> FALSE, l |-> l]}
        st2 == IF f.MatchRegex # "nil"
               THEN UNION {{[rxFiltered |-> a.rxFiltered \/ ~r.found, l |-> r.l] :
                               r \in runRegexp(f.MatchRegex, a.l, f.Scope)} : a \in st1}
               ELSE st1
    IN {runDone(a.rxFiltered, runJQ(f, a.l)) : a \in st2}

FilterScheme(jq, match, nomatch, scope) ==
    [JQ |-> jq, MatchRegex |-> match, NoMatchRegex |-> nomatch, Scope |-> scope]

\* The patterns regexp.Compile accepts, among those of the model.
ValidPatterns == {"hi", "(y)o", "(?P<state>h)(i)"}

\* regexp.Compile(rx): [rx, err], rx is "nil" and err the error when it fails.
Compile(rx) ==
    IF rx \in ValidPatterns THEN [rx |-> rx, err |-> ""]
    ELSE [rx |-> "nil", err |-> "missing closing ]"]

ErrAlreadyAdded == "regex already added"

ErrConflict == "attempt to add regex when a conflicting regex has already been added"

\* AddMatchRegex without the test for a NoMatchRegex.
AddMatchRegex_NoConflictCheck(f, rx) ==
    IF rx = "" THEN [f |-> f, err |-> ""]
    ELSE IF f.MatchRegex # "nil" THEN [f |-> f, err |-> ErrAlreadyAdded]
    ELSE [f |-> [f EXCEPT !.MatchRegex = Compile(rx).rx],
          err |-> IF Compile(rx).err # "" THEN "compile regex" ELSE ""]

\* FilterScheme.AddMatchRegex: [f, err], the scheme afterwards and the error.
AddMatchRegex(f, rx) ==
    IF rx = "" THEN [f |-> f, err |-> ""]
    ELSE IF f.MatchRegex # "nil" THEN [f |-> f, err |-> ErrAlreadyAdded]
    ELSE IF f.NoMatchRegex # "nil" THEN [f |-> f, err |-> ErrConflict]
    ELSE [f |-> [f EXCEPT !.MatchRegex = Compile(rx).rx],
          err |-> IF Compile(rx).err # "" THEN "compile regex" ELSE ""]

\* FilterScheme.AddNoMatchRegex.
AddNoMatchRegex(f, rx) ==
    IF rx = "" THEN [f |-> f, err |-> ""]
    ELSE IF f.NoMatchRegex # "nil" THEN [f |-> f, err |-> ErrAlreadyAdded]
    ELSE IF f.MatchRegex # "nil" THEN [f |-> f, err |-> ErrConflict]
    ELSE [f |-> [f EXCEPT !.NoMatchRegex = Compile(rx).rx],
          err |-> IF Compile(rx).err # "" THEN "compile" ELSE ""]

(***************************************************************************)
(* context.Print: [c, result], result the lines to display now.            *)
(***************************************************************************)
NewContext(before, after) ==
    [Before |-> before, After |-> after, lines |-> <<>>, printAfter |-> 0, line |-> 0,
     lastPrint |-> 0]

\* separatorNeeded with the gap test off by one.
separatorNeeded_OffByOne(c) ==
    /\ c.lastPrint # 0
    /\ (c.After # 0 \/ c.Before # 0)
    /\ c.line - Len(c.lines) - c.lastPrint > 0

\* separatorNeeded without the test that something was printed before.
separatorNeeded_NoFirstCheck(c) ==
    /\ (c.After # 0 \/ c.Before # 0)
    /\ c.line - Len(c.lines) - c.lastPrint > 1

\* separatorNeeded without the test that a context window is configured.
separatorNeeded_IgnoresWindows(c) ==
    /\ c.lastPrint # 0
    /\ c.line - Len(c.lines) - c.lastPrint > 1

\* The condition under which a separator precedes the lines of a selected line.
separatorNeeded(c) ==
    /\ c.lastPrint # 0
    /\ (c.After # 0 \/ c.Before # 0)
    /\ c.line - Len(c.lines) - c.lastPrint > 1

\* contextPrint that does not count down the lines of after-context.
contextPrint_AfterNeverEnds(c0, msg, selected) ==
    LET c == [c0 EXCEPT !.line = @ + 1]
    IN IF selected
       THEN LET sep == IF separatorNeeded(c) THEN <<Separator>> ELSE <<>>
            IN [c |-> [c EXCEPT !.printAfter = c.After, !.lastPrint = c.line, !.lines = <<>>],
                result |-> sep \o c.lines \o <<msg>>]
       ELSE IF c.printAfter > 0
            THEN [c |-> [c EXCEPT !.lastPrint = c.line], result |-> <<msg>>]
       ELSE IF c.Before > 0
            THEN LET ls == Append(c.lines, msg)
                 IN [c |-> [c EXCEPT !.lines = IF Len(ls) > c.Before THEN Tail(ls) ELSE ls],
                     result |-> <<>>]
       ELSE [c |-> c, result |-> <<>>]

\* contextPrint that returns the selected line ahead of the buffered lines.
contextPrint_MatchFirst(c0, msg, selected) ==
    LET c == [c0 EXCEPT !.line = @ + 1]
    IN IF selected
       THEN LET sep == IF separatorNeeded(c) THEN <<Separator>> ELSE <<>>
            IN [c |-> [c EXCEPT !.printAfter = c.After, !.lastPrint = c.line, !.lines = <<>>],
                result |-> sep \o <<msg>> \o c.lines]
       ELSE IF c.printAfter > 0
            THEN [c |-> [c EXCEPT !.lastPrint = c.line, !.printAfter = @ - 1],
                  result |-> <<msg>>]
       ELSE IF c.Before > 0
            THEN LET ls == Append(c.lines, msg)
                 IN [c |-> [c EXCEPT !.lines = IF Len(ls) > c.Before THEN Tail(ls) ELSE ls],
                     result |-> <<>>]
       ELSE [c |-> c, result |-> <<>>]

\* contextPrint that keeps the buffered lines when it returns them.
contextPrint_KeepsBuffer(c0, msg, selected) ==
    LET c == [c0 EXCEPT !.line = @ + 1]
    IN IF selected
       THEN LET sep == IF separatorNeeded(c) THEN <<Separator>> ELSE <<>>
            IN [c |-> [c EXCEPT !.printAfter = c.After, !.lastPrint = c.line],
                result |-> sep \o c.lines \o <<msg>>]
       ELSE IF c.printAfter > 0
            THEN [c |-> [c EXCEPT !.lastPrint = c.line, !.printAfter = @ - 1],
                  result |-> <<msg>>]
       ELSE IF c.Before > 0
            THEN LET ls == Append(c.lines, msg)
                 IN [c |-> [c EXCEPT !.lines = IF Len(ls) > c.Before THEN Tail(ls) ELSE ls],
                     result |-> <<>>]
       ELSE [c |-> c, result |-> <<>>]

contextPrint(c0, msg, selected) ==
    LET c == [c0 EXCEPT !.line = @ + 1]
    IN IF selected
       THEN LET sep == IF separatorNeeded(c) THEN <<Separator>> ELSE <<>>
            IN [c |-> [c EXCEPT !.printAfter = c.After, !.lastPrint = c.line, !.lines = <<>>],
                result |-> sep \o c.lines \o <<msg>>]
       ELSE IF c.printAfter > 0
            THEN [c |-> [c EXCEPT !.lastPrint = c.line, !.printAfter = @ - 1],
                  result |-> <<msg>>]
       ELSE IF c.Before > 0
            THEN LET ls == Append(c.lines, msg)
                 IN [c |-> [c EXCEPT !.lines = IF Len(ls) > c.Before THEN Tail(ls) ELSE ls],
                     result |-> <<>>]
       ELSE [c |-> c, result |-> <<>>]

(***************************************************************************)
(* The formatter of the tests (testFormatter), which panics on chosen      *)
(* values.  A formatter call gives [panicked, st, tok]: whether it         *)
(* panicked, the State afterwards and the token it wrote.                  *)
(***************************************************************************)
Tok(ty, ln, k, v) == [ty |-> ty, ln |-> ln, k |-> k, v |-> v]

panicTime == "666"
panicMessage == "panic"
panicFieldValue == "panic"

FormatTime(st, t, ln) ==
    [panicked |-> t = panicTime, st |-> st,
     tok |-> Tok("TS", ln, "", IF t = ZeroTime THEN "none" ELSE t)]

FormatLevel(st, lvl, ln) ==
    [panicked |-> lvl = LevelPanic, st |-> st,
     tok |-> Tok("LVL", ln, "",
                 CASE lvl = LevelDebug -> "D" [] lvl = LevelInfo -> "I"
                   [] lvl = LevelWarn -> "W" [] OTHER -> "X")]

FormatMessage(st, msg, highlight, ln) ==
    [panicked |-> msg = panicMessage, st |-> st,
     tok |-> Tok("MSG", ln, IF highlight THEN "highlight" ELSE "", msg)]

\* A variant of FormatField that remembers the values and never writes the mark.
FormatField_NeverElides(st, k, v, ln) ==
    [panicked |-> v.ty = "string" /\ v.s = panicFieldValue,
     st |-> [st EXCEPT !.lastFields = Put(@, k, v.s)], tok |-> Tok("F", ln, k, v.s)]

FormatField(st, k, v, ln) ==
    IF v.ty = "string" /\ v.s = panicFieldValue
    THEN [panicked |-> TRUE, st |-> st, tok |-> Tok("F", ln, k, v.s)]
    ELSE IF Has(st.lastFields, k) /\ st.lastFields[k] = v.s
         THEN [panicked |-> FALSE, st |-> st, tok |-> Tok("F", ln, k, "<same>")]
         ELSE [panicked |-> FALSE, st |-> [st EXCEPT !.lastFields = Put(@, k, v.s)],
               tok |-> Tok("F", ln, k, v.s)]

\* The up arrow DefaultOutputFormatter writes for a repeated value.
Placeholder == "<up arrow>"

\* DefaultOutputFormatter.FormatField, as far as the value goes: [st, value], the State
\* afterwards and the value written.  v.s is the string itself for a string and
\* json.Marshal(v) for any other value.
DefaultFormatField(ElideDuplicateFields, st, k, v) ==
    IF ElideDuplicateFields
    THEN IF Has(st.lastFields, k) /\ st.lastFields[k] = v.s
         THEN [st |-> [st EXCEPT !.lastFields = Put(@, k, v.s)], value |-> Placeholder]
         ELSE [st |-> [st EXCEPT !.lastFields = Put(@, k, v.s)], value |-> v.s]
    ELSE [st |-> st, value |-> v.s]

(***************************************************************************)
(* OutputSchema.Emit.  The emit record e is [out, st, panicked, fields,    *)
(* seen]: the tokens written, the State, whether a formatter panicked, the *)
(* fields not yet written and seenFieldsThisIteration.                     *)
(***************************************************************************)
NewState == [seenFields |-> <<>>, timePadding |-> 0, lastFields |-> NoFields, lastTime |-> ZeroTime]

Call(e, r) ==
    IF e.panicked THEN e
    ELSE [e EXCEPT !.st = r.st, !.panicked = r.panicked,
                   !.out = IF r.panicked THEN @ ELSE Append(@, r.tok)]

\* A variant of write that leaves the key in the fields of the line.
write_KeepsField(e, k, ln) ==
    IF e.panicked THEN e
    ELSE Call([e EXCEPT !.seen = @ \cup {k}], FormatField(e.st, k, e.fields[k], ln))

\* The closure write of Emit, applied to key k of the fields left.
write(e, k, ln) ==
    IF e.panicked THEN e
    ELSE Call([e EXCEPT !.seen = @ \cup {k}, !.fields = Del(@, k)],
              FormatField(e.st, k, e.fields[k], ln))

\* One of the three loops of Emit over the keys ks; the loop over the new fields
\* also appends each written key to seenFields.
\* A variant of remember that puts the new key in front of the seen-order list.
remember_InFront(seenFields, k) == <<k>> \o seenFields

\* s.state.seenFields = append(s.state.seenFields, k)
remember(seenFields, k) == Append(seenFields, k)

RECURSIVE writeAll(_, _, _, _, _)
writeAll(e, ks, i, isNew, ln) ==
    IF i > Len(ks) \/ e.panicked THEN e
    ELSE IF ~Has(e.fields, ks[i]) THEN writeAll(e, ks, i + 1, isNew, ln)
    ELSE LET w == write(e, ks[i], ln)
             a == IF isNew /\ ~w.panicked
                  THEN [w EXCEPT !.st.seenFields = remember(@, ks[i])] ELSE w
         IN writeAll(a, ks, i + 1, isNew, ln)

\* The level, the time and the message of Emit.
emitLevel(s, l, e) == IF s.noLevel THEN e ELSE Call(e, FormatLevel(e.st, l.lvl, l.ln))

emitTime(s, l, e) == IF s.noTime THEN e ELSE Call(e, FormatTime(e.st, l.time, l.ln))

emitMessage(s, l, e) ==
    IF s.noMessage THEN e ELSE Call(e, FormatMessage(e.st, l.msg, l.highlight, l.ln))

\* The fields seen for the first time, in sorted order.
emitNew(e, ln) ==
    writeAll(e, SelectSeq(SortedKeys, LAMBDA k : Has(e.fields, k)), 1, TRUE, ln)

\* A variant of emitDone that leaves lastFields as the formatter left it.
emitDone_KeepsLastFields(e, ln) ==
    IF e.panicked THEN [out |-> e.out, st |-> e.st, panicked |-> TRUE]
    ELSE [out |-> Append(e.out, Tok("NL", ln, "", "")), st |-> e.st, panicked |-> FALSE]

\* The end of Emit: lastFields keeps the fields of this record, then the newline.
emitDone(e, ln) ==
    IF e.panicked THEN [out |-> e.out, st |-> e.st, panicked |-> TRUE]
    ELSE [out |-> Append(e.out, Tok("NL", ln, "", "")),
          st |-> [e.st EXCEPT !.lastFields =
                     [k \in (DOMAIN e.st.lastFields) \cap e.seen |-> e.st.lastFields[k]]],
          panicked |-> FALSE]

\* A variant of Emit that writes the fields seen on past lines before the priority
\* fields.
Emit_SeenBeforePriority(s, l) ==
    IF l.isSeparator
    THEN [out |-> <<Tok("SEP", 0, "", "---"), Tok("NL", 0, "", "")>>, st |-> s.state,
          panicked |-> FALSE]
    ELSE emitDone(
           emitNew(
             writeAll(
               writeAll(
                 emitMessage(s, l, emitTime(s, l, emitLevel(s, l,
                   [out |-> <<>>, st |-> s.state, panicked |-> FALSE, fields |-> l.fields,
                    seen |-> {}]))),
                 s.state.seenFields, 1, FALSE, l.ln),
               s.PriorityFields, 1, FALSE, l.ln),
             l.ln),
           l.ln)

\* A variant of Emit that starts afresh after a separator: no value is remembered.
Emit_SeparatorForgets(s, l) ==
    IF l.isSeparator
    THEN [out |-> <<Tok("SEP", 0, "", "---"), Tok("NL", 0, "", "")>>,
          st |-> [s.state EXCEPT !.lastFields = NoFields], panicked |-> FALSE]
    ELSE emitDone(
           emitNew(
             writeAll(
               writeAll(
                 emitMessage(s, l, emitTime(s, l, emitLevel(s, l,
                   [out |-> <<>>, st |-> s.state, panicked |-> FALSE, fields |-> l.fields,
                    seen |-> {}]))),
                 s.PriorityFields, 1, FALSE, l.ln),
               s.state.seenFields, 1, FALSE, l.ln),
             l.ln),
           l.ln)

Emit(s, l) ==
    IF l.isSeparator
    THEN [out |-> <<Tok("SEP", 0, "", "---"), Tok("NL", 0, "", "")>>, st |-> s.state,
          panicked |-> FALSE]
    ELSE emitDone(
           emitNew(
             writeAll(
               writeAll(
                 emitMessage(s, l, emitTime(s, l, emitLevel(s, l,
                   [out |-> <<>>, st |-> s.state, panicked |-> FALSE, fields |-> l.fields,
                    seen |-> {}]))),
                 s.PriorityFields, 1, FALSE, l.ln),
               s.state.seenFields, 1, FALSE, l.ln),
             l.ln),
           l.ln)

(***************************************************************************)
(* ReadLog.                                                                *)
(*   ins, outs, filter  the schemas and the filter scheme ReadLog is given *)
(*   ctx                the context window                                 *)
(*   sum                the Summary                                        *)
(*   sink               the tokens the writer w has accepted               *)
(*   errlog             the row numbers of the messages given to EmitError *)
(*   pc, finalErr       "loop" while ReadLog is between two rows;          *)
(*                      "returned" with the returned error ("" is nil)     *)
(*   src                "open", or "failed" once the source has failed     *)
(*   inputLog           the rows the scanner has delivered (history)       *)
(*   last               what the latest iteration of the loop did, with    *)
(*                      what it left in buf (history)                      *)
(*   hist               per row read: whether it was filtered, failed to   *)
(*                      parse, was given to ctx.Print (fed) and as selected*)
(*                      (history)                                          *)
(*   printed            the lines ctx.Print has returned so far (history)  *)
(*   ret                what the latest call of ReadLine, Run, Emit,       *)
(*                      AddMatchRegex or AddNoMatchRegex returned, where   *)
(*                      one of them is run on its own                      *)
(*   reader             the interruptible.Reader, its underlying reader,   *)
(*                      the signal channel, the goroutine of Read and the  *)
(*                      slice of the caller, where the Reader is run on    *)
(*                      its own                                            *)
(***************************************************************************)
VARIABLES ins, outs, filter, ctx, sum, sink, errlog, pc, finalErr, src, inputLog, last,
          hist, printed, ret, reader

vars == <<ins, outs, filter, ctx, sum, sink, errlog, pc, finalErr, src, inputLog, last,
          hist, printed, ret, reader>>

\* reader where no interruptible.Reader is in use.
NoReader == [closed |-> FALSE]

\* ret before the first call.
NoRet == [op |-> "none"]

OutputSchema(before, after) ==
    [PriorityFields |-> <<>>, BeforeContext |-> before, AfterContext |-> after,
     suppressionConfigured |-> FALSE, noTime |-> FALSE, noLevel |-> FALSE, noMessage |-> FALSE,
     state |-> NewState]

\* outs once the suppression flags are copied from the input schema s.
configure(os, s) ==
    IF ~os.suppressionConfigured
    THEN [os EXCEPT !.noTime = s.NoTimeKey, !.noLevel = s.NoLevelKey,
                    !.noMessage = s.NoMessageKey, !.suppressionConfigured = TRUE]
    ELSE os

\* o, which is [outs, buf, panicked], after Emit gave em under the schema os.
emitted(o, os, em) ==
    [outs |-> [os EXCEPT !.state = em.st], buf |-> o.buf \o em.out, panicked |-> em.panicked]

emitOne(o, os, l) == emitted(o, os, Emit(os, l))

\* The loop over the lines ctx.Print returned, from index i on.
RECURSIVE emitAll(_, _, _, _)
emitAll(o, ls, i, s) ==
    IF i > Len(ls) \/ o.panicked THEN o
    ELSE emitAll(emitOne(o, configure(o.outs, s), ls[i]), ls, i + 1, s)

\* StrictParseError that forgets to mark the error recoverable.
StrictParseError_Fatal(b) ==
    [b EXCEPT !.addError = TRUE, !.writeRawLine = TRUE, !.recoverable = FALSE, !.retErr = "parse"]

\* FilterError that marks the error recoverable.
FilterError_Recoverable(b) ==
    [b EXCEPT !.addError = TRUE, !.writeRawLine = TRUE, !.recoverable = TRUE, !.retErr = "filter"]

\* ParseErrorAfterEmit that does not count the line as an error.
ParseErrorAfterEmit_NoCount(b) ==
    [b EXCEPT !.addError = FALSE, !.writeRawLine = FALSE, !.recoverable = TRUE, !.retErr = "parse"]

\* Recover that marks the panic recoverable.
Recover_Recoverable(b) ==
    [b EXCEPT !.addError = TRUE, !.writeRawLine = TRUE, !.recoverable = TRUE, !.retErr = "panic"]

\* Recover that does not count the line as an error.
Recover_NoCount(b) ==
    [b EXCEPT !.addError = FALSE, !.writeRawLine = TRUE, !.recoverable = FALSE, !.retErr = "panic"]

\* The flags and the returned error of the function literal, at each of its exits.
StrictParseError(b) ==
    [b EXCEPT !.addError = TRUE, !.writeRawLine = TRUE, !.recoverable = TRUE, !.retErr = "parse"]

FilterError(b) ==
    [b EXCEPT !.addError = TRUE, !.writeRawLine = TRUE, !.recoverable = FALSE, !.retErr = "filter"]

FilteredParseError(b) ==
    [b EXCEPT !.addError = TRUE, !.recoverable = TRUE, !.writeRawLine = FALSE, !.retErr = "parse"]

ParseErrorAfterEmit(b) ==
    [b EXCEPT !.addError = TRUE, !.writeRawLine = FALSE, !.recoverable = TRUE, !.retErr = "parse"]

\* The deferred recover().
Recover(b) ==
    [b EXCEPT !.addError = TRUE, !.writeRawLine = TRUE, !.recoverable = FALSE, !.retErr = "panic"]

\* The exit of the function literal after the emit loop.
emitExit(b) ==
    IF b.panicked THEN Recover(b)
    ELSE IF b.parseErr THEN ParseErrorAfterEmit(b)
    ELSE b

\* The function literal after the emit loop: pr is what ctx.Print gave, em what
\* the emit loop left.
afterEmit(b, pr, em) ==
    emitExit([b EXCEPT !.ctx = pr.c, !.outs = em.outs, !.buf = em.buf, !.fed = TRUE,
                       !.released = pr.result, !.panicked = em.panicked])

\* The emit loop on what ctx.Print gave.
emitPrinted(b, pr) ==
    afterEmit(b, pr, emitAll([outs |-> b.outs, buf |-> <<>>, panicked |-> FALSE],
                             pr.result, 1, b.ins))

\* afterFilter that gives a filtered line with a parse error to ctx.Print.
afterFilter_PrintsParseErrors(b) == emitPrinted(b, contextPrint(b.ctx, b.l, ~b.filtered))

\* The function literal once the filter has run without error.
afterFilter(b) ==
    IF b.filtered /\ b.parseErr THEN FilteredParseError(b)
    ELSE emitPrinted(b, contextPrint(b.ctx, b.l, ~b.filtered))

\* The body of the function literal from the filter on, for one result fr of filter.Run.
FilterAndEmit(b, fr) ==
    IF fr.err # "" THEN FilterError([b EXCEPT !.filterErr = TRUE, !.l = fr.l])
    ELSE afterFilter([b EXCEPT !.filtered = fr.filtered, !.l = fr.l])

\* A variant of afterReadLine that gives a line with a parse error to the filter in
\* strict mode too.
afterReadLine_FiltersParseErrors(rd, outS, ctxS, filt, strict) ==
    LET b == [ins |-> rd.s, outs |-> outS, ctx |-> ctxS, buf |-> <<>>,
              addError |-> FALSE, writeRawLine |-> FALSE, recoverable |-> FALSE, retErr |-> "",
              filtered |-> FALSE, released |-> <<>>, panicked |-> FALSE,
              parseErr |-> rd.err # <<>>, filterErr |-> FALSE, fed |-> FALSE, l |-> rd.l]
    IN {FilterAndEmit(b, fr) : fr \in Run(filt, rd.l)}

\* The function literal after ReadLine gave rd.
afterReadLine(rd, outS, ctxS, filt, strict) ==
    LET b == [ins |-> rd.s, outs |-> outS, ctx |-> ctxS, buf |-> <<>>,
              addError |-> FALSE, writeRawLine |-> FALSE, recoverable |-> FALSE, retErr |-> "",
              filtered |-> FALSE, released |-> <<>>, panicked |-> FALSE,
              parseErr |-> rd.err # <<>>, filterErr |-> FALSE, fed |-> FALSE, l |-> rd.l]
    IN IF b.parseErr /\ strict THEN {StrictParseError(b)}
       ELSE {FilterAndEmit(b, fr) : fr \in Run(filt, rd.l)}

\* The function literal run for one row, up to its deferred functions: the set of
\* its possible results.
Body(insS, outS, ctxS, filt, raw, ln) ==
    afterReadLine(ReadLine(insS, reset(raw, ln), raw), outS, ctxS, filt, insS.Strict)

\* The outcomes of one call of w.Write: -1 is success, n >= 0 a failure after at
\* most n tokens were accepted.
WriteOutcomes == {-1} \cup (0 .. MaxShortWrite)

Min(a, b) == IF a < b THEN a ELSE b

\* A variant of WriteTo that keeps the last token in the buffer when the write succeeds.
WriteTo_KeepsLastToken(data, w) ==
    IF w = -1
    THEN [acc |-> SubSeq(data, 1, Len(data) - 1), rest |-> SubSeq(data, Len(data), Len(data)),
          err |-> FALSE, data |-> data]
    ELSE [acc |-> SubSeq(data, 1, Min(w, Len(data))),
          rest |-> SubSeq(data, Min(w, Len(data)) + 1, Len(data)), err |-> TRUE, data |-> data]

\* buf.WriteTo(w): the tokens accepted, those left in the buffer, the error.
WriteTo(data, w) ==
    IF w = -1 THEN [acc |-> data, rest |-> <<>>, err |-> FALSE, data |-> data]
    ELSE [acc |-> SubSeq(data, 1, Min(w, Len(data))),
          rest |-> SubSeq(data, Min(w, Len(data)) + 1, Len(data)), err |-> TRUE, data |-> data]

RawLine(raw, ln) == <<Tok("RAW", ln, "", raw.text), Tok("NL", ln, "", "")>>

\* ErrorsAdded without the test that addError already counted the line.
ErrorsAdded_Double(addError, writeError) ==
    (IF addError THEN 1 ELSE 0) + (IF writeError THEN 1 ELSE 0)

\* What the deferred function adds to sum.Errors: one for addError, and one for a
\* write error unless addError already counted the line.
ErrorsAdded(addError, writeError) ==
    (IF addError THEN 1 ELSE 0) + (IF writeError /\ ~addError THEN 1 ELSE 0)

\* EmitErrorCalled without the test of ins.Strict.
EmitErrorCalled_AnyMode(recoverable, strict) == recoverable

\* Whether the deferred function gives the error to outs.EmitError.
EmitErrorCalled(recoverable, strict) == recoverable /\ strict

\* The deferred function that adjusts the counters and flushes the buffer.
Deferred(b, raw, ln, strict, w1, w2) ==
    LET flush == Len(b.buf) > 0
        wr1 == WriteTo(b.buf, w1)
        failed1 == flush /\ wr1.err
        buf1 == IF flush THEN wr1.rest ELSE b.buf
        ret1 == IF failed1 THEN "write remaining buffer content" ELSE b.retErr
        wr2 == WriteTo(buf1 \o RawLine(raw, ln), w2)
        failed2 == b.writeRawLine /\ wr2.err
        ret2 == IF failed2 THEN "write raw line" ELSE ret1
        recoverable == b.recoverable /\ ~failed1 /\ ~failed2
        writeError == failed1 \/ failed2
    IN [writes |-> (IF flush THEN <<wr1>> ELSE <<>>) \o (IF b.writeRawLine THEN <<wr2>> ELSE <<>>),
        wrote |-> (IF flush THEN wr1.acc ELSE <<>>) \o (IF b.writeRawLine THEN wr2.acc ELSE <<>>),
        emitError |-> EmitErrorCalled(recoverable, strict),
        retErr |-> IF recoverable THEN "" ELSE ret2,
        errors |-> ErrorsAdded(b.addError, writeError),
        writeError |-> writeError,
        writeRawLine |-> b.writeRawLine,
        left |-> IF b.writeRawLine THEN wr2.rest ELSE buf1]

\* Count with sum.Lines++ moved behind the return for a filtered line.
Count_SkipFiltered(s, filtered, errors) ==
    [Lines |-> s.Lines + (IF filtered THEN 0 ELSE 1), Errors |-> s.Errors + errors,
     Filtered |-> s.Filtered + (IF filtered THEN 1 ELSE 0)]

\* The Summary after one iteration: sum.Lines++ at the top of the loop,
\* sum.Filtered++ when the line is filtered, sum.Errors++ in the deferred function.
Count(s, filtered, errors) ==
    [Lines |-> s.Lines + 1, Errors |-> s.Errors + errors,
     Filtered |-> s.Filtered + (IF filtered THEN 1 ELSE 0)]

NoLast ==
    [ln |-> 0, raw |-> "", released |-> <<>>, panicked |-> FALSE, parseErr |-> FALSE,
     filterErr |-> FALSE, filtered |-> FALSE, buf |-> <<>>, writes |-> <<>>, wrote |-> <<>>,
     writeError |-> FALSE, retErr |-> "", emitError |-> FALSE, before |-> NewState,
     writeRawLine |-> FALSE, left |-> <<>>]

\* One iteration of the loop of ReadLog on the row raw.
Iteration(raw, w1, w2) ==
    /\ pc = "loop"
    /\ src = "open"
    /\ sum.Lines < MaxLines
    /\ \E b \in Body(ins, outs, ctx, filter, raw, sum.Lines + 1) :
       \E ln \in {sum.Lines + 1} : \E d \in {Deferred(b, raw, ln, ins.Strict, w1, w2)} :
            /\ ins' = b.ins
            /\ outs' = b.outs
            /\ ctx' = b.ctx
            /\ sum' = Count(sum, b.filtered, d.errors)
            /\ sink' = sink \o d.wrote
            /\ errlog' = IF d.emitError THEN Append(errlog, ln) ELSE errlog
            /\ pc' = IF d.retErr # "" THEN "returned" ELSE "loop"
            /\ finalErr' = d.retErr
            /\ inputLog' = Append(inputLog, raw)
            /\ last' = [ln |-> ln, raw |-> raw.text, released |-> b.released,
                        panicked |-> b.panicked, parseErr |-> b.parseErr,
                        filterErr |-> b.filterErr, filtered |-> b.filtered, buf |-> b.buf,
                        writes |-> d.writes, wrote |-> d.wrote, writeError |-> d.writeError,
                        retErr |-> d.retErr, emitError |-> d.emitError, before |-> outs.state,
                        writeRawLine |-> d.writeRawLine, left |-> d.left]
            /\ hist' = Append(hist, [ln |-> ln, filtered |-> b.filtered, parseErr |-> b.parseErr,
                                      fed |-> b.fed, selected |-> b.fed /\ ~b.filtered])
            /\ printed' = printed \o b.released
    /\ UNCHANGED <<reader, filter, ret>>

\* s.Scan() delivers a complete row.
ScanLine == \E raw \in Rows, w1, w2 \in WriteOutcomes : Iteration(raw, w1, w2) /\ src' = src

\* ScanPartial that throws away what was read of the row.
ScanPartial_DropsRow ==
    /\ pc = "loop"
    /\ src = "open"
    /\ sum.Lines < MaxLines
    /\ src' = "failed"
    /\ inputLog' = Append(inputLog, RowTrunc)
    /\ UNCHANGED <<reader, ins, outs, filter, ctx, sum, sink, errlog, pc, finalErr, last, hist, printed, ret>>

\* The source fails in the middle of a row: s.Scan() delivers what was read of it.
ScanPartial == \E w1, w2 \in WriteOutcomes : Iteration(RowTrunc, w1, w2) /\ src' = "failed"

\* s.Scan() returns false at the end of the input: ReadLog returns s.Err() = nil.
ScanEOF ==
    /\ pc = "loop"
    /\ src = "open"
    /\ pc' = "returned"
    /\ finalErr' = ""
    /\ UNCHANGED <<reader, ins, outs, filter, ctx, sum, sink, errlog, src, inputLog, last, hist, printed, ret>>

\* s.Scan() returns false because the source failed or a row is longer than
\* LineBufferSize: ReadLog returns s.Err().
ScanErr ==
    /\ pc = "loop"
    /\ pc' = "returned"
    /\ finalErr' = "read"
    /\ src' = "failed"
    /\ UNCHANGED <<reader, ins, outs, filter, ctx, sum, sink, errlog, inputLog, last, hist, printed, ret>>

\* The filter schemes of the model.  ContextFilters are run with every context
\* size, ErrorFilters (one per kind of bad program result) without context.
ContextFilters ==
    {FilterScheme("nil", "nil", "nil", RegexpScopeMessage),
     FilterScheme("select(.a==1)", "nil", "nil", RegexpScopeMessage),
     FilterScheme("if .a==2 then null else . end", "nil", "nil", RegexpScopeMessage),
     FilterScheme("nil", "hi", "nil", RegexpScopeMessage),
     FilterScheme("nil", "nil", "hi", RegexpScopeMessage)}

ErrorFilters ==
    {FilterScheme("if .a==2 then true else . end", "nil", "nil", RegexpScopeMessage),
     FilterScheme("if .a==2 then 42 else . end", "nil", "nil", RegexpScopeMessage),
     FilterScheme("if .a==2 then error(\"goodbye\") else . end", "nil", "nil", RegexpScopeMessage),
     FilterScheme("if .a==2 then (.,.) else . end", "nil", "nil", RegexpScopeMessage)}

Init ==
    /\ \E strict \in BOOLEAN : ins = InputSchema(strict)
    /\ \E before \in 0 .. MaxBefore, after \in 0 .. MaxAfter :
         /\ outs = OutputSchema(before, after)
         /\ ctx = NewContext(before, after)
         /\ \/ filter \in ContextFilters
            \/ before = 0 /\ after = 0 /\ filter \in ErrorFilters
    /\ sum = [Lines |-> 0, Errors |-> 0, Filtered |-> 0]
    /\ sink = <<>>
    /\ errlog = <<>>
    /\ pc = "loop"
    /\ finalErr = ""
    /\ src = "open"
    /\ inputLog = <<>>
    /\ last = NoLast
    /\ hist = <<>>
    /\ printed = <<>>
    /\ ret = NoRet
    /\ reader = NoReader

Next == ScanLine \/ ScanPartial \/ ScanEOF \/ ScanErr

Spec == Init /\ [][Next]_vars

(***************************************************************************)
(* ReadLog with a regexp that has capture groups, alone or followed by a   *)
(* program that removes some of the lines the regexp keeps.                *)
(***************************************************************************)
CaptureFilters ==
    {FilterScheme("nil", "nil", "(y)o", RegexpScopeMessage),
     FilterScheme("nil", "nil", "(?P<state>h)(i)", RegexpScopeMessage),
     FilterScheme("select(.a==1)", "(?P<state>h)(i)", "nil", RegexpScopeMessage)}

\* A row with the message of RowGood that select(.a==1) removes.
RowHi2 == Row("{t:2,l:warn,m:hi,a:2}", TRUE, TRUE,
              F4("t", Num("2"), "l", Str("warn"), "m", Str("hi"), "a", Num("2")))

CaptureRows == {RowText, RowGood, RowOther, RowHi2}

CaptureInit ==
    /\ ins = InputSchema(FALSE)
    /\ \E before \in 1 .. MaxBefore, after \in 0 .. MaxAfter :
         /\ outs = OutputSchema(before, after)
         /\ ctx = NewContext(before, after)
    /\ filter \in CaptureFilters
    /\ sum = [Lines |-> 0, Errors |-> 0, Filtered |-> 0]
    /\ sink = <<>>
    /\ errlog = <<>>
    /\ pc = "loop"
    /\ finalErr = ""
    /\ src = "open"
    /\ inputLog = <<>>
    /\ last = NoLast
    /\ hist = <<>>
    /\ printed = <<>>
    /\ ret = NoRet
    /\ reader = NoReader

\* s.Scan() delivers a complete row.
CaptureScanLine ==
    \E raw \in CaptureRows, w1, w2 \in WriteOutcomes : Iteration(raw, w1, w2) /\ src' = src

CaptureNext == CaptureScanLine \/ ScanPartial \/ ScanEOF \/ ScanErr

SpecCapture == CaptureInit /\ [][CaptureNext]_vars

(***************************************************************************)
(* context.Print on its own: lines 1, 2, ... are given to Print with any   *)
(* selection pattern and any windows; hist records the pattern, printed    *)
(* what Print returned and last.released what its latest call returned.    *)
(***************************************************************************)
ContextInit ==
    /\ \E before, after \in 0 .. MaxWindow :
         /\ outs = OutputSchema(before, after)
         /\ ctx = NewContext(before, after)
    /\ ins = InputSchema(FALSE)
    /\ filter = FilterScheme("nil", "nil", "nil", RegexpScopeMessage)
    /\ sum = [Lines |-> 0, Errors |-> 0, Filtered |-> 0]
    /\ sink = <<>>
    /\ errlog = <<>>
    /\ pc = "loop"
    /\ finalErr = ""
    /\ src = "open"
    /\ inputLog = <<>>
    /\ last = NoLast
    /\ hist = <<>>
    /\ printed = <<>>
    /\ ret = NoRet
    /\ reader = NoReader

\* One call of ctx.Print, on the line numbered n.
Feed(selected, n) ==
    /\ Len(hist) < MaxFed
    /\ \E pr \in {contextPrint(ctx, reset(RowGood, n), selected)} :
         /\ ctx' = pr.c
         /\ printed' = printed \o pr.result
         /\ last' = [NoLast EXCEPT !.ln = n, !.released = pr.result, !.filtered = ~selected]
    /\ hist' = Append(hist, [ln |-> n, filtered |-> ~selected, parseErr |-> FALSE,
                              fed |-> TRUE, selected |-> selected])
    /\ UNCHANGED <<reader, ins, outs, filter, sum, sink, errlog, pc, finalErr, src, inputLog, ret>>

FeedSelected == Feed(TRUE, Len(hist) + 1)

FeedFiltered == Feed(FALSE, Len(hist) + 1)

ContextNext == FeedSelected \/ FeedFiltered

SpecContext == ContextInit /\ [][ContextNext]_vars

(***************************************************************************)
(* ReadLine on its own, for the guessing of the schema: the schema is one  *)
(* that NewInputSchema builds from the command line, and rows of several   *)
(* log formats are read one after the other.                               *)
(***************************************************************************)
NewInputSchema(lax, tk, lk, mk, noTime, noLevel, noMessage) ==
    [TimeKey |-> IF noTime THEN "" ELSE tk,
     TimeFormat |-> IF noTime THEN "NoopTimeParser"
                    ELSE IF tk # "" THEN "DefaultTimeParser" ELSE "nil",
     LevelKey |-> IF noLevel THEN "" ELSE lk,
     LevelFormat |-> IF noLevel THEN "NoopLevelParser"
                     ELSE IF lk # "" THEN "DefaultLevelParser" ELSE "nil",
     MessageKey |-> IF noMessage THEN "" ELSE mk,
     NoTimeKey |-> noTime, NoLevelKey |-> noLevel, NoMessageKey |-> noMessage,
     Strict |-> ~lax, DeleteKeys |-> <<>>, UpgradeKeys |-> <<>>]

RowPlain == Row("{a:1}", TRUE, TRUE, Put(NoFields, "a", Num("1")))

RowZap == Row("{ts:1,level:info,msg:hi}", TRUE, TRUE,
              Put(Put(Put(NoFields, "ts", Num("1")), "level", Str("info")), "msg", Str("hi")))

RowLogrus == Row("{time:2020-01-01T00:00:00Z,level:info,msg:hi}", TRUE, TRUE,
                 Put(Put(Put(NoFields, "time", Str("2020-01-01T00:00:00Z")), "level", Str("info")),
                     "msg", Str("hi")))

RowBunyan == Row("{time:2020-01-01T00:00:00Z,level:30,v:0,msg:hi}", TRUE, TRUE,
                 F4("time", Str("2020-01-01T00:00:00Z"), "level", Num("30"), "v", Num("0"),
                    "msg", Str("hi")))

RowLager == Row("{timestamp:1,log_level:1,message:hi,source:x,data:{a:1}}", TRUE, TRUE,
                Put(F4("timestamp", Str("1"), "log_level", Num("1"), "message", Str("hi"),
                       "source", Str("x")),
                    "data", Obj("", Put(NoFields, "a", Num("1")))))

\* A row with the keys of the zap row and of the plain time+level+msg row.
RowZapTime == Row("{ts:1,time:2020-01-01T00:00:00Z,level:info,msg:hi}", TRUE, TRUE,
                  F4("ts", Num("1"), "time", Str("2020-01-01T00:00:00Z"), "level", Str("info"),
                     "msg", Str("hi")))

\* The keys of the bunyan row, but v is not 0.
RowBunyanV1 == Row("{time:2020-01-01T00:00:00Z,level:info,v:1,msg:hi}", TRUE, TRUE,
                   F4("time", Str("2020-01-01T00:00:00Z"), "level", Str("info"), "v", Num("1"),
                      "msg", Str("hi")))

RowLagerPretty == Row("{timestamp:2020-01-01T00:00:00Z,level:info,message:hi,source:x,data:{a:1}}",
                      TRUE, TRUE,
                      Put(F4("timestamp", Str("2020-01-01T00:00:00Z"), "level", Str("info"),
                             "message", Str("hi"), "source", Str("x")),
                          "data", Obj("", Put(NoFields, "a", Num("1")))))

\* The keys of the lager row and one more.
RowLager6 == Row("{timestamp:1,log_level:1,message:hi,source:x,data:{a:1},a:2}", TRUE, TRUE,
                 Put(RowLager.obj, "a", Num("2")))

RowPachyderm == Row("{ts:2020-01-01T00:00:00Z,message:hi,workerId:w,pipelineName:p}", TRUE, TRUE,
                    F4("ts", Str("2020-01-01T00:00:00Z"), "message", Str("hi"),
                       "workerId", Str("w"), "pipelineName", Str("p")))

GuessRows ==
    {RowPlain, RowZap, RowLogrus, RowBunyan, RowLager, RowGood, RowZapTime, RowBunyanV1,
     RowLagerPretty, RowLager6, RowPachyderm}

GuessInit ==
    /\ \E lax \in BOOLEAN :
         \/ \E tk \in {"", "t"}, lk \in {"", "l"}, mk \in {"", "m"} :
               ins = NewInputSchema(lax, tk, lk, mk, FALSE, FALSE, FALSE)
         \/ \E noTime, noLevel, noMessage \in BOOLEAN :
               /\ noTime \/ noLevel \/ noMessage
               /\ ins = NewInputSchema(lax, "", "", "", noTime, noLevel, noMessage)
    /\ outs = OutputSchema(0, 0)
    /\ ctx = NewContext(0, 0)
    /\ filter = FilterScheme("nil", "nil", "nil", RegexpScopeMessage)
    /\ sum = [Lines |-> 0, Errors |-> 0, Filtered |-> 0]
    /\ sink = <<>>
    /\ errlog = <<>>
    /\ pc = "loop"
    /\ finalErr = ""
    /\ src = "open"
    /\ inputLog = <<>>
    /\ last = NoLast
    /\ hist = <<>>
    /\ printed = <<>>
    /\ ret = NoRet
    /\ reader = NoReader

\* One call of ins.ReadLine, on the row raw.
GuessRead(raw) ==
    /\ Len(inputLog) < MaxGuessLines
    /\ \E n \in {Len(inputLog) + 1} : \E rd \in {ReadLine(ins, reset(raw, n), raw)} :
         /\ ins' = rd.s
         /\ last' = [NoLast EXCEPT !.ln = n, !.raw = raw.text, !.parseErr = rd.err # <<>>]
         /\ hist' = Append(hist, [ln |-> n, filtered |-> FALSE, parseErr |-> rd.err # <<>>,
                                   fed |-> FALSE, selected |-> FALSE,
                                   guessed |-> rd.s # ins])
    /\ inputLog' = Append(inputLog, raw)
    /\ UNCHANGED <<reader, outs, filter, ctx, sum, sink, errlog, pc, finalErr, src, printed, ret>>

\* A row that json.Unmarshal decodes.
ReadObject == \E raw \in GuessRows : GuessRead(raw)

\* A row that is not JSON.
ReadText == GuessRead(RowText)

GuessNext == ReadObject \/ ReadText

SpecGuess == GuessInit /\ [][GuessNext]_vars

(***************************************************************************)
(* ReadLine on its own, on one row: the schema names the keys t, l and m   *)
(* and may name data as a key to upgrade; in the row each of t, m and l is *)
(* absent, of a type its parser rejects, or good, and data is absent, an   *)
(* object, an object with a member data, or an array.                      *)
(***************************************************************************)
Arr(s) == [ty |-> "array", s |-> s, o |-> NoFields]

PutIf(f, c, k, v) == IF c THEN Put(f, k, v) ELSE f

KeyCases == {"absent", "bad", "good"}

DataCases == {"absent", "object", "self", "array"}

DataObject == Obj("", Put(Put(NoFields, "a", Bool("true")), "b", Num("42.1")))

DataSelf == Obj("", Put(NoFields, "data", Str("hello")))

ReadRow(t, m, l, d) ==
    Row("{row}", TRUE, TRUE,
        PutIf(PutIf(PutIf(PutIf(Put(Put(NoFields, "a", Str("nope")), "c", Num("123")),
              t # "absent", "t", IF t = "good" THEN Num("1") ELSE Str("bad")),
              m # "absent", "m", IF m = "good" THEN Str("hi") ELSE Num("42")),
              l # "absent", "l", IF l = "good" THEN Str("info") ELSE Num("42")),
              d # "absent", "data",
              CASE d = "object" -> DataObject [] d = "self" -> DataSelf [] OTHER -> Arr("[foo]")))

ReadRows == {ReadRow(t, m, l, d) : t, m, l \in KeyCases, d \in DataCases}

ReadInit ==
    /\ \E strict \in BOOLEAN, up \in {<<>>, <<"data">>} :
          ins = [InputSchema(strict) EXCEPT !.UpgradeKeys = up]
    /\ \E raw \in ReadRows : inputLog = <<raw>>
    /\ ret = NoRet
    /\ reader = NoReader
    /\ outs = OutputSchema(0, 0)
    /\ ctx = NewContext(0, 0)
    /\ filter = FilterScheme("nil", "nil", "nil", RegexpScopeMessage)
    /\ sum = [Lines |-> 0, Errors |-> 0, Filtered |-> 0]
    /\ sink = <<>>
    /\ errlog = <<>>
    /\ pc = "loop"
    /\ finalErr = ""
    /\ src = "open"
    /\ last = NoLast
    /\ hist = <<>>
    /\ printed = <<>>

\* The call of ins.ReadLine on the row.
ReadCall ==
    /\ ret = NoRet
    /\ \E rd \in {ReadLine(ins, reset(inputLog[1], 1), inputLog[1])} :
          /\ ret' = [op |-> "ReadLine", l |-> rd.l, err |-> rd.err]
          /\ ins' = rd.s
    /\ UNCHANGED <<reader, outs, filter, ctx, sum, sink, errlog, pc, finalErr, src, inputLog, last,
                   hist, printed>>

ReadNext == ReadCall

SpecRead == ReadInit /\ [][ReadNext]_vars

(***************************************************************************)
(* FilterScheme.Run and FilterScheme.runJQ on their own, on one line: the  *)
(* line is what a lax ReadLine makes of the row, the scheme has any of the *)
(* programs of TestJQ and TestReadLog and at most one regexp.              *)
(***************************************************************************)
\* A row whose message matches no regexp of the model and whose field b does.
RowValue == Row("{t:1,l:info,m:x,a:2,b:yo}", TRUE, TRUE,
                Put(F4("t", Num("1"), "l", Str("info"), "m", Str("x"), "a", Num("2")), "b", Str("yo")))

FilterRows == {RowText, RowGood, RowOther, RowValue}

\* The line the filter is given for the row raw.
LineOf(raw) == ReadLine(InputSchema(FALSE), reset(raw, 1), raw).l

JQPrograms ==
    {"nil", ".", "select(.a==1)", "empty", "null", "1 > 2", "3.141592", "error(\"goodbye\")",
     "{}", "{}, {}", "highlight(.a==1)", "highlight(true)"}

Regexps == {"hi", "(y)o", "(?P<state>h)(i)"}

Scopes ==
    {RegexpScopeMessage, RegexpScopeKeys + RegexpScopeValues,
     RegexpScopeMessage + RegexpScopeKeys + RegexpScopeValues}

FilterInit ==
    /\ \E jq \in JQPrograms, scope \in Scopes :
          \/ filter = FilterScheme(jq, "nil", "nil", scope)
          \/ \E rx \in Regexps : filter = FilterScheme(jq, rx, "nil", scope)
          \/ \E rx \in Regexps : filter = FilterScheme(jq, "nil", rx, scope)
    /\ \E raw \in FilterRows : inputLog = <<raw>>
    /\ ret = NoRet
    /\ reader = NoReader
    /\ ins = InputSchema(FALSE)
    /\ outs = OutputSchema(0, 0)
    /\ ctx = NewContext(0, 0)
    /\ sum = [Lines |-> 0, Errors |-> 0, Filtered |-> 0]
    /\ sink = <<>>
    /\ errlog = <<>>
    /\ pc = "loop"
    /\ finalErr = ""
    /\ src = "open"
    /\ last = NoLast
    /\ hist = <<>>
    /\ printed = <<>>

\* The call of filter.Run on the line.
RunCall ==
    /\ ret = NoRet
    /\ \E fr \in Run(filter, LineOf(inputLog[1])) :
          ret' = [op |-> "Run", filtered |-> fr.filtered, err |-> fr.err, l |-> fr.l]
    /\ UNCHANGED <<reader, ins, outs, filter, ctx, sum, sink, errlog, pc, finalErr, src, inputLog, last,
                   hist, printed>>

\* The call of filter.runJQ on the line.
JQCall ==
    /\ ret = NoRet
    /\ \E j \in {runJQ(filter, LineOf(inputLog[1]))} :
          ret' = [op |-> "runJQ", filtered |-> j.filtered, err |-> j.err, l |-> j.l]
    /\ UNCHANGED <<reader, ins, outs, filter, ctx, sum, sink, errlog, pc, finalErr, src, inputLog, last,
                   hist, printed>>

FilterNext == RunCall \/ JQCall

SpecFilter == FilterInit /\ [][FilterNext]_vars

(***************************************************************************)
(* runRegexp on its own: the same regexp, scope and line, run twice.  hist *)
(* keeps what each run returned.                                           *)
(***************************************************************************)
\* A row with two fields.
RowTwo == Row("{t:1,l:info,m:hi,a:1,b:2}", TRUE, TRUE,
              Put(F4("t", Num("1"), "l", Str("info"), "m", Str("hi"), "a", Num("1")), "b", Num("2")))

RegexpRows == {RowText, RowGood, RowOther, RowValue, RowTwo}

RegexpChoices == {"hi", "(y)o", "^(a|b)$", "^([12])$"}

AllScopes == 1 .. (RegexpScopeMessage + RegexpScopeKeys + RegexpScopeValues)

RegexpInit ==
    /\ \E rx \in RegexpChoices, scope \in AllScopes : filter = FilterScheme("nil", rx, "nil", scope)
    /\ \E raw \in RegexpRows : inputLog = <<raw>>
    /\ hist = <<>>
    /\ ret = NoRet
    /\ reader = NoReader
    /\ ins = InputSchema(FALSE)
    /\ outs = OutputSchema(0, 0)
    /\ ctx = NewContext(0, 0)
    /\ sum = [Lines |-> 0, Errors |-> 0, Filtered |-> 0]
    /\ sink = <<>>
    /\ errlog = <<>>
    /\ pc = "loop"
    /\ finalErr = ""
    /\ src = "open"
    /\ last = NoLast
    /\ printed = <<>>

\* One run of runRegexp on the line of the row.
RegexpCall ==
    /\ Len(hist) < 2
    /\ \E r \in runRegexp(filter.MatchRegex, LineOf(inputLog[1]), filter.Scope) :
          /\ ret' = [op |-> "runRegexp", found |-> r.found, l |-> r.l]
          /\ hist' = Append(hist, [found |-> r.found, fields |-> r.l.fields])
    /\ UNCHANGED <<reader, ins, outs, filter, ctx, sum, sink, errlog, pc, finalErr, src, inputLog,
                   last, printed>>

RegexpNext == RegexpCall

SpecRegexp == RegexpInit /\ [][RegexpNext]_vars

(***************************************************************************)
(* AddMatchRegex and AddNoMatchRegex on a new FilterScheme, called in any  *)
(* order with empty, valid and invalid patterns, and Run after them.  hist *)
(* records the calls.                                                      *)
(***************************************************************************)
Patterns == {"", "hi", "(y)o", "["}

AddsInit ==
    /\ \E jq \in {"nil", "{}"} : filter = FilterScheme(jq, "nil", "nil", 0)
    /\ hist = <<>>
    /\ ret = NoRet
    /\ reader = NoReader
    /\ ins = InputSchema(FALSE)
    /\ outs = OutputSchema(0, 0)
    /\ ctx = NewContext(0, 0)
    /\ sum = [Lines |-> 0, Errors |-> 0, Filtered |-> 0]
    /\ sink = <<>>
    /\ errlog = <<>>
    /\ pc = "loop"
    /\ finalErr = ""
    /\ src = "open"
    /\ inputLog = <<>>
    /\ last = NoLast
    /\ printed = <<>>

\* One call of op, which gave a.
Added(op, rx, a) ==
    /\ Len(hist) < MaxAdds
    /\ filter' = a.f
    /\ ret' = [op |-> op, err |-> a.err]
    /\ hist' = Append(hist, [op |-> op, rx |-> rx, err |-> a.err])
    /\ UNCHANGED <<reader, ins, outs, ctx, sum, sink, errlog, pc, finalErr, src, inputLog, last, printed>>

AddMatch == \E rx \in Patterns : Added("AddMatchRegex", rx, AddMatchRegex(filter, rx))

AddNoMatch == \E rx \in Patterns : Added("AddNoMatchRegex", rx, AddNoMatchRegex(filter, rx))

\* f.Run(&line{}) after the calls.
AddsRun ==
    /\ Len(hist) > 0
    /\ ret.op # "Run"
    /\ \E fr \in Run(filter, reset(Row("", FALSE, FALSE, NoFields), 1)) :
          ret' = [op |-> "Run", filtered |-> fr.filtered, err |-> fr.err, l |-> fr.l]
    /\ UNCHANGED <<reader, ins, outs, filter, ctx, sum, sink, errlog, pc, finalErr, src, inputLog, last,
                   hist, printed>>

AddsNext == AddMatch \/ AddNoMatch \/ AddsRun

SpecAdds == AddsInit /\ [][AddsNext]_vars

(***************************************************************************)
(* Emit on its own (TestEmit): one output schema with its priority fields, *)
(* given up to MaxEmits lines one after the other.  hist keeps, per call,  *)
(* the keys of the line and the tokens Emit wrote; sink is everything      *)
(* written.                                                                *)
(***************************************************************************)
EmitKeys == {"foo", "bar", "baz"}

PriorityChoices == {<<>>, <<"baz">>, <<"baz", "bar">>, <<"baz", "baz">>}

\* The line number ln with the fields ks.
EmitLine(ks, ln) ==
    [time |-> "1", msg |-> "hi", lvl |-> LevelInfo, raw |-> "", highlight |-> FALSE,
     fields |-> [k \in ks |-> Str("this is " \o k)], isSeparator |-> FALSE, ln |-> ln]

EmitLines(ln) == {EmitLine(ks, ln) : ks \in SUBSET EmitKeys} \cup {Separator}

EmitInit ==
    /\ \E p \in PriorityChoices : outs = [OutputSchema(0, 0) EXCEPT !.PriorityFields = p]
    /\ hist = <<>>
    /\ ret = NoRet
    /\ reader = NoReader
    /\ sink = <<>>
    /\ ins = InputSchema(FALSE)
    /\ filter = FilterScheme("nil", "nil", "nil", 0)
    /\ ctx = NewContext(0, 0)
    /\ sum = [Lines |-> 0, Errors |-> 0, Filtered |-> 0]
    /\ errlog = <<>>
    /\ pc = "loop"
    /\ finalErr = ""
    /\ src = "open"
    /\ inputLog = <<>>
    /\ last = NoLast
    /\ printed = <<>>

\* s.Emit(test.line, w), which gave em.
Emitted(l, em) ==
    /\ outs' = [outs EXCEPT !.state = em.st]
    /\ sink' = sink \o em.out
    /\ ret' = [op |-> "Emit", out |-> em.out]
    /\ hist' = Append(hist, [keys |-> DOMAIN l.fields, isSeparator |-> l.isSeparator,
                             fields |-> l.fields, out |-> em.out])
    /\ UNCHANGED <<reader, ins, filter, ctx, sum, errlog, pc, finalErr, src, inputLog, last, printed>>

EmitCall ==
    /\ Len(hist) < MaxEmits
    /\ \E l \in EmitLines(Len(hist) + 1) : Emitted(l, Emit(outs, l))

EmitNext == EmitCall

SpecEmit == EmitInit /\ [][EmitNext]_vars

(***************************************************************************)
(* Emit on its own with fields whose values repeat and change from one     *)
(* line to the next, under no priority fields.                             *)
(***************************************************************************)
ElideKeys == {"a", "b"}

\* A number, another number, and the string that is written like the first number.
ElideValues == {Num("1"), Num("2"), Str("1")}

ElideFields ==
    UNION {[ks -> ElideValues] : ks \in SUBSET ElideKeys}

ElideLines(ln) ==
    {[EmitLine({}, ln) EXCEPT !.fields = f] : f \in ElideFields} \cup {Separator}

ElideInit ==
    /\ outs = OutputSchema(0, 0)
    /\ hist = <<>>
    /\ ret = NoRet
    /\ reader = NoReader
    /\ sink = <<>>
    /\ ins = InputSchema(FALSE)
    /\ filter = FilterScheme("nil", "nil", "nil", 0)
    /\ ctx = NewContext(0, 0)
    /\ sum = [Lines |-> 0, Errors |-> 0, Filtered |-> 0]
    /\ errlog = <<>>
    /\ pc = "loop"
    /\ finalErr = ""
    /\ src = "open"
    /\ inputLog = <<>>
    /\ last = NoLast
    /\ printed = <<>>

ElideCall ==
    /\ Len(hist) < MaxEmits
    /\ \E l \in ElideLines(Len(hist) + 1) : Emitted(l, Emit(outs, l))

ElideNext == ElideCall

SpecElide == ElideInit /\ [][ElideNext]_vars

(***************************************************************************)
(* interruptible.Reader on its own.  reader is                             *)
(*   closed, sigCh      r.closed and the number of signals in r.sigCh      *)
(*   notify             whether signal.Notify is in force for r.sigCh      *)
(*   under              the underlying reader r.r: "open" or "closed"      *)
(*   at                 the caller: "idle" between two calls, "select" in  *)
(*                      the select of Read                                 *)
(*   p                  the slice of the caller (one byte; 0 at first)     *)
(*   buf, n, err, go    the buffer and the results of the goroutine of     *)
(*                      Read, which is "reading" until r.r.Read returns    *)
(*                      and "done" once it has closed ch                   *)
(*   reads, signals, fed  the calls of Read that have returned, the        *)
(*                      signals sent and the bytes the underlying reader   *)
(*                      has delivered (byte number i has the value i)      *)
(* hist keeps, per return of r.r.Read, what it returned, whether the       *)
(* Reader was closed by then and where the caller was.                     *)
(***************************************************************************)
ErrInterrupted == "interrupted"

ErrClosed == "read on closed reader"

EOF == "EOF"

\* fmt.Errorf("close after interrupt: %v (was %w)", err, ErrInterrupted)
ErrCloseAfterInterrupt == "close after interrupt: close underlying reader (was interrupted)"

\* errors.Is(err, ErrInterrupted)
IsInterrupted(err) == err \in {ErrInterrupted, ErrCloseAfterInterrupt}

NewReader ==
    [closed |-> FALSE, sigCh |-> 0, notify |-> TRUE, under |-> "open", at |-> "idle", p |-> 0,
     buf |-> 0, n |-> 0, err |-> "", go |-> "none", reads |-> 0, signals |-> 0, fed |-> 0]

\* Reader.Close, where fails says whether r.r.Close() returns an error: [rd, err].
Close(rd, fails) ==
    [rd |-> [rd EXCEPT !.closed = TRUE, !.notify = FALSE,
                       !.under = IF fails THEN @ ELSE "closed"],
     err |-> IF fails THEN "close underlying reader" ELSE ""]

\* What r.r.Read can return: a byte, the end of the input or, once r.r is closed, the
\* error of a closed reader.
ReadOutcomes(rd) == {"byte", "EOF"} \cup (IF rd.under = "closed" THEN {"closed"} ELSE {})

\* A variant of underlyingRead that reads into the slice of the caller.
underlyingRead_IntoCallerSlice(rd, o) ==
    [rd EXCEPT !.p = IF o = "byte" THEN rd.fed + 1 ELSE @,
               !.fed = IF o = "byte" THEN @ + 1 ELSE @,
               !.n = IF o = "byte" THEN 1 ELSE 0,
               !.err = CASE o = "byte" -> "" [] o = "EOF" -> EOF [] OTHER -> "file already closed",
               !.go = "done"]

\* The goroutine of Read: n, err = r.r.Read(buf); close(ch).
underlyingRead(rd, o) ==
    [rd EXCEPT !.buf = IF o = "byte" THEN rd.fed + 1 ELSE @,
               !.fed = IF o = "byte" THEN @ + 1 ELSE @,
               !.n = IF o = "byte" THEN 1 ELSE 0,
               !.err = CASE o = "byte" -> "" [] o = "EOF" -> EOF [] OTHER -> "file already closed",
               !.go = "done"]

\* A variant of sigReady under which the signal is taken once the read has returned.
sigReady_AfterRead(rd) == rd.sigCh > 0 /\ rd.go = "done"

\* case <-r.sigCh of the select is ready.
sigReady(rd) == rd.sigCh > 0

\* case <-ch of the select is ready.
chReady(rd) == rd.go = "done"

InterruptInit ==
    /\ reader = NewReader
    /\ ret = NoRet
    /\ hist = <<>>
    /\ sink = <<>>
    /\ outs = OutputSchema(0, 0)
    /\ ins = InputSchema(FALSE)
    /\ filter = FilterScheme("nil", "nil", "nil", 0)
    /\ ctx = NewContext(0, 0)
    /\ sum = [Lines |-> 0, Errors |-> 0, Filtered |-> 0]
    /\ errlog = <<>>
    /\ pc = "loop"
    /\ finalErr = ""
    /\ src = "open"
    /\ inputLog = <<>>
    /\ last = NoLast
    /\ printed = <<>>

Others ==
    UNCHANGED <<ins, outs, filter, ctx, sum, sink, errlog, pc, finalErr, src, inputLog, last,
                hist, printed>>

\* Read on a closed Reader.
ReadClosed ==
    /\ reader.at = "idle" /\ reader.reads < MaxReads
    /\ reader.closed
    /\ reader' = [reader EXCEPT !.reads = @ + 1]
    /\ ret' = [op |-> "Read", n |-> 0, err |-> ErrClosed]
    /\ Others

\* Read up to the select: buf is made and the goroutine started.
ReadStart ==
    /\ reader.at = "idle" /\ reader.reads < MaxReads
    /\ ~reader.closed
    /\ reader' = [reader EXCEPT !.at = "select", !.buf = 0, !.n = 0, !.err = "", !.go = "reading"]
    /\ UNCHANGED ret
    /\ Others

\* r.r.Read(buf) returns in the goroutine.
GoRead ==
    /\ reader.go = "reading"
    /\ \E o \in ReadOutcomes(reader) :
          /\ reader' = underlyingRead(reader, o)
          /\ hist' = Append(hist, [outcome |-> o, closed |-> reader.closed, at |-> reader.at])
    /\ UNCHANGED <<ins, outs, filter, ctx, sum, sink, errlog, pc, finalErr, src, inputLog, last,
                   printed, ret>>

\* case <-ch: copy(p, buf[:n]); return n, err.
SelectDone ==
    /\ reader.at = "select" /\ chReady(reader)
    /\ reader' = [reader EXCEPT !.p = IF reader.n > 0 THEN reader.buf ELSE @, !.at = "idle",
                                !.go = "none", !.reads = @ + 1]
    /\ ret' = [op |-> "Read", n |-> reader.n, err |-> reader.err]
    /\ Others

\* case <-r.sigCh: r.Close(); return 0, ErrInterrupted or the error of Close around it.
SelectSignal ==
    /\ reader.at = "select" /\ sigReady(reader)
    /\ \E fails \in BOOLEAN :
          \E c \in {Close([reader EXCEPT !.sigCh = @ - 1], fails)} :
             /\ reader' = [c.rd EXCEPT !.at = "idle", !.reads = @ + 1]
             /\ ret' = [op |-> "Read", n |-> 0,
                        err |-> IF c.err # "" THEN ErrCloseAfterInterrupt ELSE ErrInterrupted]
    /\ Others

\* A registered signal arrives; it is dropped when r.sigCh is full.
Signal ==
    /\ reader.notify /\ reader.signals < MaxSignals
    /\ reader' = [reader EXCEPT !.sigCh = IF @ < 1 THEN @ + 1 ELSE @, !.signals = @ + 1]
    /\ UNCHANGED ret
    /\ Others

\* The caller closes the Reader between two calls of Read.
CloseCall ==
    /\ reader.at = "idle" /\ ~reader.closed
    /\ \E fails \in BOOLEAN :
          \E c \in {Close(reader, fails)} :
             reader' = c.rd /\ ret' = [op |-> "Close", n |-> 0, err |-> c.err]
    /\ Others

InterruptNext ==
    ReadClosed \/ ReadStart \/ GoRead \/ SelectDone \/ SelectSignal \/ Signal \/ CloseCall

SpecInterrupt == InterruptInit /\ [][InterruptNext]_vars

\* The select of Read takes a case that is ready; nothing makes r.r.Read return.
SpecInterruptLive == SpecInterrupt /\ WF_vars(SelectSignal) /\ WF_vars(SelectDone)

(***************************************************************************)
(* Properties.                                                             *)
(***************************************************************************)
NoFilter == filter.JQ = "nil" /\ filter.MatchRegex = "nil" /\ filter.NoMatchRegex = "nil"

\* The tokens w hold the raw echo of row ln.
RawIn(w, ln) ==
    \E i \in 1 .. Len(w) - 1 : w[i].ty = "RAW" /\ w[i].ln = ln /\ w[i + 1].ty = "NL"

\* The tokens w hold the rendering of row ln up to the newline that ends it.
RenderedIn(w, ln) ==
    \E i \in 2 .. Len(w) : w[i].ty = "NL" /\ w[i].ln = ln /\ w[i - 1].ty # "RAW"

NewLines(w, ln) == {i \in DOMAIN w : w[i].ty = "NL" /\ w[i].ln = ln}

\* C1: when no write fails, a row whose parsing (strict), filtering or emitting
\* failed, and every record the context window released for the row, reaches the
\* sink as its complete rendering or as its raw bytes and a newline.
C1_NoAdmittedRecordLost ==
    (last.ln > 0 /\ ~last.writeError) =>
        /\ ((last.parseErr /\ ins.Strict) \/ last.filterErr \/ last.panicked) =>
               (RawIn(last.wrote, last.ln) \/ RenderedIn(last.wrote, last.ln))
        /\ \A i \in DOMAIN last.released :
               ~last.released[i].isSeparator =>
                   \/ RenderedIn(last.wrote, last.released[i].ln)
                   \/ RawIn(last.wrote, last.released[i].ln)

C4_StateUnchangedByPanic == last.panicked => outs.state = last.before

\* C5: when a formatter panics on a row, sum.Errors grows by exactly one and ReadLog
\* returns a non-nil error; when no write fails, the sink receives what was
\* formatted so far for the row, then the row's raw bytes and one newline, and the
\* returned error is the panic.
C5_PanicFlushThenRaw ==
    [][(last'.ln # last.ln /\ last'.panicked) =>
          /\ sum'.Errors = sum.Errors + 1
          /\ pc' = "returned"
          /\ finalErr' # ""
          /\ ~last'.writeError =>
                /\ finalErr' = "panic"
                /\ sink' = sink \o last'.buf
                              \o <<Tok("RAW", last'.ln, "", last'.raw), Tok("NL", last'.ln, "", "")>>]_vars

C5_Witness ==
    /\ last.panicked
    /\ ~last.writeError
    /\ Len(last.buf) > 0
    /\ Len(sink) = Len(last.buf) + 2

\* C6: sum.Lines is the number of rows the scanner has delivered, at every point of
\* the run and after ReadLog has returned.
C6_LinesCountsRows == sum.Lines = Len(inputLog)

C6_Witness ==
    /\ pc = "returned"
    /\ sum.Lines >= 3
    /\ sum.Filtered > 0
    /\ sum.Errors > 0

\* C7: with no regexp and no program, and as long as no write fails, every row read
\* has exactly one newline-terminated line in the sink and no separator is written.
C7_OneLinePerRow ==
    (NoFilter /\ ~last.writeError) =>
        /\ \A n \in 1 .. sum.Lines : Cardinality(NewLines(sink, n)) = 1
        /\ \A i \in DOMAIN sink : sink[i].ty # "SEP" /\ sink[i].ln \in 1 .. sum.Lines
        /\ \A n \in 1 .. sum.Lines :
              (ins.Strict /\ ~inputLog[n].isObj) => RawIn(sink, n)

C7_Witness ==
    /\ NoFilter
    /\ ~last.writeError
    /\ outs.BeforeContext > 0
    /\ outs.AfterContext > 0
    /\ sum.Lines >= 3
    /\ sum.Errors > 0
    /\ pc = "loop"

\* C8: a step adds at most one to sum.Errors and at most one to sum.Filtered, never
\* lowers a counter, and keeps sum.Errors and sum.Filtered at most sum.Lines.
C8_CountersOncePerLine ==
    [][/\ sum'.Errors - sum.Errors \in {0, 1}
       /\ sum'.Filtered - sum.Filtered \in {0, 1}
       /\ sum'.Lines - sum.Lines \in {0, 1}
       /\ sum'.Errors <= sum'.Lines
       /\ sum'.Filtered <= sum'.Lines]_vars

C8_Witness ==
    /\ last.parseErr
    /\ last.writeError
    /\ Len(last.released) >= 2
    /\ sum.Errors >= 1

\* C9: in strict mode a row with a parse error whose raw echo is written without
\* a write failure adds the raw bytes and a newline to the sink, sends one message
\* to EmitError, adds one to sum.Errors and leaves ReadLog in its loop.
C9_StrictParseErrorNotFatal ==
    [][(last'.ln # last.ln /\ last'.parseErr /\ ins.Strict /\ ~last'.writeError) =>
          /\ sink' = sink \o <<Tok("RAW", last'.ln, "", last'.raw), Tok("NL", last'.ln, "", "")>>
          /\ errlog' = Append(errlog, last'.ln)
          /\ sum'.Errors = sum.Errors + 1
          /\ pc' = "loop"
          /\ finalErr' = ""]_vars

C9_Witness ==
    /\ ins.Strict
    /\ last.parseErr
    /\ ~last.writeError
    /\ pc = "loop"
    /\ Len(errlog) = 2

\* A non-JSON row followed by a valid JSON row, lax schema, no filter, no write
\* failure.
ScenarioB ==
    /\ Len(inputLog) = 2
    /\ ~inputLog[1].isObj
    /\ inputLog[2] \in {RowGood, RowOther}
    /\ ~ins.Strict
    /\ NoFilter
    /\ ~last.writeError

C11_LaxNeverEmitsError == ~ins.Strict => errlog = <<>>

C11_Witness ==
    /\ ~ins.Strict
    /\ last.parseErr
    /\ sum.Errors >= 2
    /\ pc = "loop"
    /\ errlog = <<>>

\* C12: a failed write to the sink is the last write ReadLog attempts, and after it
\* ReadLog has returned a non-nil error without reading another row.
C12_StopsAtFirstFailedWrite ==
    /\ \A i \in DOMAIN last.writes : last.writes[i].err => i = Len(last.writes)
    /\ last.writeError => (pc = "returned" /\ finalErr # "" /\ sum.Lines = last.ln)

PrintedLines(p) == {p[k].ln : k \in {k \in DOMAIN p : ~p[k].isSeparator}}

\* Lines i-b .. i+a among lines 1 .. n.
Window(i, b, a, n) == {j \in 1 .. n : i - b <= j /\ j <= i + a}

SelectedIn(h) == {i \in DOMAIN h : h[i].selected}

MaxOf(S) == CHOOSE x \in S : \A y \in S : y <= x

\* C14: after any number N of lines given to ctx.Print, the lines it has returned
\* are exactly those within Before lines before or After lines after a selected
\* line, among lines 1 .. N; and with a single selected line no separator is
\* returned.
C14_PrintedIsUnionOfWindows ==
    /\ PrintedLines(printed) =
          UNION {Window(i, ctx.Before, ctx.After, Len(hist)) : i \in SelectedIn(hist)}
    /\ Cardinality(SelectedIn(hist)) = 1 => \A k \in DOMAIN printed : ~printed[k].isSeparator

C14_Witness ==
    /\ Len(hist) = MaxFed
    /\ SelectedIn(hist) = {4}
    /\ ctx.Before = 2
    /\ ctx.After = 1
    /\ PrintedLines(printed) = {2, 3, 4, 5}
    /\ Len(printed) = 4

\* The number of the first line (separators left out) of the sequence p.
FirstLine(p) == p[IF p[1].isSeparator THEN 2 ELSE 1].ln

\* C15: a call of ctx.Print returns a separator, one, ahead of its lines, exactly
\* when the line is selected, some line was returned by an earlier call, Before or
\* After is positive, and at least one line lies between the last line returned
\* earlier and the first line returned now; otherwise it returns no separator.
C15_SeparatorExactlyOnGap ==
    [][last'.ln # last.ln =>
          LET rel == last'.released
              seps == {k \in DOMAIN rel : rel[k].isSeparator}
          IN IF /\ hist'[Len(hist')].selected
                /\ PrintedLines(printed) # {}
                /\ (ctx.Before > 0 \/ ctx.After > 0)
                /\ FirstLine(rel) - MaxOf(PrintedLines(printed)) - 1 >= 1
             THEN seps = {1}
             ELSE seps = {}]_vars

C15_Witness ==
    /\ Len(printed) = 7
    /\ printed[4].isSeparator
    /\ PrintedLines(printed) = {1, 2, 3, 5, 6, 7}
    /\ ctx.Before = 1
    /\ ctx.After = 1
    /\ SelectedIn(hist) = {2, 6}

\* C16: in what ctx.Print has returned, at every point of the run, a separator is
\* never first, never last and never next to another separator.
C16_SeparatorsBetweenRecords ==
    \A k \in DOMAIN printed :
        printed[k].isSeparator =>
            /\ k > 1
            /\ k < Len(printed)
            /\ ~printed[k - 1].isSeparator
            /\ ~printed[k + 1].isSeparator

C16_Witness ==
    /\ Cardinality({k \in DOMAIN printed : printed[k].isSeparator}) = 2
    /\ ctx.Before = 0
    /\ ctx.After = 1
    /\ Len(hist) = MaxFed

\* The rows whose rendering, up to its newline, is in the sink.
Rendered == {n \in 1 .. Len(hist) : RenderedIn(sink, n)}

\* The rows that were given to ctx.Print, in order.
FedRows == SelectSeq(hist, LAMBDA h : h.fed)

RenderedNL == {i \in DOMAIN sink : sink[i].ty = "NL" /\ sink[i].ln > 0 /\ sink[i - 1].ty # "RAW"}

\* C18: the lines ctx.Print has returned (separators left out) are rows of the
\* input, in input order and each at most once, and so are the rows rendered in
\* the sink.
C18_OutputInInputOrder ==
    /\ \A j, k \in DOMAIN printed :
          (j < k /\ ~printed[j].isSeparator /\ ~printed[k].isSeparator)
              => printed[j].ln < printed[k].ln
    /\ \A k \in DOMAIN printed :
          ~printed[k].isSeparator =>
              /\ printed[k].ln \in DOMAIN inputLog
              /\ printed[k].raw = inputLog[printed[k].ln].text
    /\ \A i, j \in RenderedNL : i < j => sink[i].ln < sink[j].ln
    /\ Rendered \subseteq PrintedLines(printed)

C18_Witness ==
    /\ Len(printed) >= 4
    /\ \E k \in DOMAIN printed : printed[k].isSeparator
    /\ Cardinality(Rendered) >= 3
    /\ Len(last.released) >= 2
    /\ ~last.writeError
    /\ ~last.panicked

\* The keys and the parsers of a schema.
SchemaKeys(s) == <<s.TimeKey, s.TimeFormat, s.LevelKey, s.LevelFormat, s.MessageKey>>

\* C19: once a row has been decoded, no later row sets the keys or the parsers of
\* the schema: only the first decoded row can.
C19_GuessOnlyOnFirstRecord ==
    [][(\E n \in DOMAIN inputLog : inputLog[n].isObj) => SchemaKeys(ins') = SchemaKeys(ins)]_vars

\* A key is set, or one of the options that say a key is absent.
PreSet(s) ==
    \/ s.TimeKey # "" \/ s.LevelKey # "" \/ s.MessageKey # ""
    \/ s.NoTimeKey \/ s.NoLevelKey \/ s.NoMessageKey

\* C20: when a key or a no-key option is set, reading a row leaves the whole schema
\* as it is: keys, parsers, DeleteKeys and UpgradeKeys.
C20_PreSetBypassesGuessing == [][PreSet(ins) => ins' = ins]_vars

C20_Witness ==
    /\ ins.TimeKey = ""
    /\ ins.LevelKey = "l"
    /\ ins.MessageKey = ""
    /\ ins.DeleteKeys = <<>>
    /\ Len(inputLog) = 3
    /\ inputLog[1] = RowZap
    /\ inputLog[2] = RowBunyan
    /\ inputLog[3] = RowLager

\* C21: once a row has made guessSchema set the schema, reading a row changes
\* nothing of the schema (keys, parsers, options, DeleteKeys, UpgradeKeys), so at
\* most one key is ever appended to DeleteKeys and UpgradeKeys together.
C21_SchemaFixedAfterDetection ==
    [][/\ (\E n \in DOMAIN hist : hist[n].guessed) => ins' = ins
       /\ Len(ins'.DeleteKeys) + Len(ins'.UpgradeKeys) <= 1]_vars

C21_Witness ==
    /\ Len(inputLog) = 3
    /\ inputLog[1] = RowBunyan
    /\ hist[1].guessed
    /\ inputLog[2] = RowZap
    /\ inputLog[3] = RowLager
    /\ ins.TimeKey = "time"
    /\ ins.LevelFormat = "BunyanV0LevelParser"
    /\ ins.DeleteKeys = <<"v">>
    /\ ins.UpgradeKeys = <<>>

\* The rows of the table of signatures, in the table's order: the keys that must
\* be present, whether there must be exactly five keys, whether v must be 0, and
\* what the row sets.
Signatures ==
    <<[keys |-> {"ts", "level", "msg"}, five |-> FALSE, v0 |-> FALSE, noLevel |-> FALSE,
       sets |-> <<"ts", "StrictUnixTimeParser", "level", "DefaultLevelParser", "msg">>,
       del |-> <<>>, up |-> <<>>],
      [keys |-> {"timestamp", "severity", "message"}, five |-> FALSE, v0 |-> FALSE,
       noLevel |-> FALSE,
       sets |-> <<"timestamp", "DefaultTimeParser", "severity", "DefaultLevelParser", "message">>,
       del |-> <<>>, up |-> <<>>],
      [keys |-> {"time", "severity", "message"}, five |-> FALSE, v0 |-> FALSE, noLevel |-> FALSE,
       sets |-> <<"time", "DefaultTimeParser", "severity", "DefaultLevelParser", "message">>,
       del |-> <<>>, up |-> <<>>],
      [keys |-> {"time", "level", "v", "msg"}, five |-> FALSE, v0 |-> TRUE, noLevel |-> FALSE,
       sets |-> <<"time", "DefaultTimeParser", "level", "BunyanV0LevelParser", "msg">>,
       del |-> <<"v">>, up |-> <<>>],
      [keys |-> {"time", "level", "msg"}, five |-> FALSE, v0 |-> FALSE, noLevel |-> FALSE,
       sets |-> <<"time", "DefaultTimeParser", "level", "DefaultLevelParser", "msg">>,
       del |-> <<>>, up |-> <<>>],
      [keys |-> {"timestamp", "level", "message", "data", "source"}, five |-> TRUE, v0 |-> FALSE,
       noLevel |-> FALSE,
       sets |-> <<"timestamp", "DefaultTimeParser", "level", "DefaultLevelParser", "message">>,
       del |-> <<>>, up |-> <<"data">>],
      [keys |-> {"timestamp", "log_level", "message", "data", "source"}, five |-> TRUE,
       v0 |-> FALSE, noLevel |-> FALSE,
       sets |-> <<"timestamp", "StrictUnixTimeParser", "log_level", "LagerLevelParser", "message">>,
       del |-> <<>>, up |-> <<"data">>],
      [keys |-> {"ts", "message", "workerId", "pipelineName"}, five |-> FALSE, v0 |-> FALSE,
       noLevel |-> TRUE,
       sets |-> <<"ts", "DefaultTimeParser", "", "nil", "message">>,
       del |-> <<>>, up |-> <<>>]>>

\* The decoded fields f match the row sig of the table.
Matches(sig, f) ==
    /\ sig.keys \subseteq DOMAIN f
    /\ sig.five => Cardinality(DOMAIN f) = 5
    /\ sig.v0 => f["v"] = Num("0")

\* The numbers of the rows of the table that f matches.
Matching(f) == {i \in DOMAIN Signatures : Matches(Signatures[i], f)}

MinOf(S) == CHOOSE x \in S : \A y \in S : x <= y

\* C22: when a decoded row is read under a schema with no key and no no-key option
\* set, the schema becomes what the first row of the table that the record matches
\* sets (keys, parsers, the level option, DeleteKeys, UpgradeKeys), whatever later
\* rows it also matches; a record that matches no row leaves the schema as it is.
C22_FirstSignatureWins ==
    [][(~PreSet(ins) /\ inputLog' # inputLog /\ inputLog'[Len(inputLog')].isObj) =>
          LET f == inputLog'[Len(inputLog')].obj
          IN IF Matching(f) = {} THEN ins' = ins
             ELSE LET sig == Signatures[MinOf(Matching(f))]
                  IN /\ SchemaKeys(ins') = sig.sets
                     /\ ins'.NoLevelKey = sig.noLevel
                     /\ ins'.DeleteKeys = sig.del
                     /\ ins'.UpgradeKeys = sig.up
                     /\ ins'.NoTimeKey = ins.NoTimeKey
                     /\ ins'.NoMessageKey = ins.NoMessageKey
                     /\ ins'.Strict = ins.Strict]_vars

\* A record with v = 1 has fallen through the bunyan row to the plain row, after a
\* record with six keys matched neither lager row.
C22_Witness ==
    /\ Len(inputLog) = 2
    /\ inputLog[1] = RowLager6
    /\ ~hist[1].guessed
    /\ inputLog[2] = RowBunyanV1
    /\ hist[2].guessed
    /\ SchemaKeys(ins) = <<"time", "DefaultTimeParser", "level", "DefaultLevelParser", "msg">>
    /\ ins.DeleteKeys = <<>>

\* The chain err of pushed errors holds one of the errors es.
ErrIn(err, es) == \E i \in DOMAIN err : err[i] \in es

\* C23: ReadLine judges each of the time, the message and the level on its own
\* value, whatever the other two are: a good one is extracted into the line and
\* its key removed from the fields; a missing or rejected one adds its error to
\* the returned chain, is not extracted, and its key, when present, stays in the
\* fields with its value.
C23_KeysExtractedIndependently ==
    ret.op = "ReadLine" =>
        LET f == inputLog[1].obj
            g == ret.l.fields
            timeOk == Has(f, "t") /\ f["t"].ty = "number"
            msgOk == Has(f, "m") /\ f["m"].ty = "string"
            lvlOk == Has(f, "l") /\ f["l"].ty = "string"
        IN /\ IF timeOk
              THEN ret.l.time = f["t"].s /\ ~Has(g, "t") /\ ~ErrIn(ret.err, {"parse time", "no time key"})
              ELSE /\ ret.l.time = ZeroTime
                   /\ ErrIn(ret.err, {IF Has(f, "t") THEN "parse time" ELSE "no time key"})
                   /\ Has(f, "t") => (Has(g, "t") /\ g["t"] = f["t"])
           /\ IF msgOk
              THEN /\ ret.l.msg = f["m"].s /\ ~Has(g, "m")
                   /\ ~ErrIn(ret.err, {"message key contains non-string data", "no message key"})
              ELSE /\ ret.l.msg = IF Has(f, "m") THEN inputLog[1].text ELSE ""
                   /\ ErrIn(ret.err, {IF Has(f, "m") THEN "message key contains non-string data"
                                       ELSE "no message key"})
                   /\ Has(f, "m") => (Has(g, "m") /\ g["m"] = f["m"])
           /\ IF lvlOk
              THEN ret.l.lvl = LevelInfo /\ ~Has(g, "l") /\ ~ErrIn(ret.err, {"level key", "no level key"})
              ELSE /\ ret.l.lvl = LevelUnknown
                   /\ ErrIn(ret.err, {IF Has(f, "l") THEN "level key" ELSE "no level key"})
                   /\ Has(f, "l") => (Has(g, "l") /\ g["l"] = f["l"])

\* The time does not parse and the level is not a string; the message is extracted.
C23_Witness ==
    /\ ret.op = "ReadLine"
    /\ ret.err = <<"parse time", "level key">>
    /\ ret.l.msg = "hi"
    /\ ret.l.time = ZeroTime
    /\ DOMAIN ret.l.fields = {"a", "c", "t", "l"}

\* C24: with data as the only key to upgrade and the time, message and level
\* extracted, the fields ReadLine leaves are: when data is absent, the other
\* fields; when data is an object, the other fields without data, overwritten and
\* extended by the members of the object (a member named data is then the field
\* data); when data is not an object, the other fields with data unchanged, and an
\* error is returned exactly in strict mode.
C24_UpgradeDeletesThenMerges ==
    (/\ ret.op = "ReadLine"
     /\ ins.UpgradeKeys = <<"data">>
     /\ {"t", "m", "l"} \subseteq DOMAIN inputLog[1].obj
     /\ ~ErrIn(ret.err, {"parse time", "message key contains non-string data", "level key"})) =>
        LET f == inputLog[1].obj
            base == [k \in (DOMAIN f) \ {"t", "m", "l"} |-> f[k]]
            g == ret.l.fields
        IN IF ~Has(f, "data") THEN g = base /\ ret.err = <<>>
           ELSE IF f["data"].ty = "object"
                THEN /\ DOMAIN g = ((DOMAIN base) \ {"data"}) \cup (DOMAIN f["data"].o)
                     /\ \A k \in DOMAIN g :
                           g[k] = IF k \in DOMAIN f["data"].o THEN f["data"].o[k] ELSE base[k]
                     /\ ret.err = <<>>
                ELSE /\ g = base
                     /\ ret.err = IF ins.Strict THEN <<"upgrade key">> ELSE <<>>

\* The object under data holds a member named data, which is now the field data.
C24_Witness ==
    /\ ret.op = "ReadLine"
    /\ ins.UpgradeKeys = <<"data">>
    /\ ret.err = <<>>
    /\ Has(inputLog[1].obj, "data")
    /\ inputLog[1].obj["data"] = DataSelf
    /\ ret.l.fields = Put(Put(Put(NoFields, "a", Str("nope")), "c", Num("123")), "data", Str("hello"))

\* The regexp rx matches the line l somewhere in the scope.
Found(rx, l, scope) == \E r \in runRegexp(rx, l, scope) : r.found

\* The regexps of the filter remove the line of the row: the no-match regexp
\* matches it, or the match regexp does not.
RegexStageFiltered ==
    \/ filter.NoMatchRegex # "nil" /\ Found(filter.NoMatchRegex, LineOf(inputLog[1]), filter.Scope)
    \/ filter.MatchRegex # "nil" /\ ~Found(filter.MatchRegex, LineOf(inputLog[1]), filter.Scope)

\* What the program of the filter yields for the line of the row.
ProgramResults == IF filter.JQ = "nil" THEN <<Obj("", NoFields)>> ELSE JQRun(filter.JQ, LineOf(inputLog[1]))

\* The program yields something that runJQ returns as an error.
ProgramFails ==
    /\ Len(ProgramResults) > 0
    /\ (ProgramResults[1].ty # "object" \/ Len(ProgramResults) > 1)

\* C25 as claimed: Run reports the line filtered exactly when the regexps removed
\* it or the program yielded no result.
C25_FilteredIffRegexOrProgram ==
    ret.op = "Run" => (ret.filtered <=> (RegexStageFiltered \/ Len(ProgramResults) = 0))

\* C25 as amended: Run runs the program whatever the regexps said; when the
\* program fails Run returns its error and reports the line not filtered, even
\* a line the regexps removed; otherwise it returns no error and reports the
\* line filtered exactly when the regexps removed it or the program yielded no
\* result.
C25_FilteredUnlessProgramFails ==
    ret.op = "Run" =>
        IF ProgramFails THEN ret.err # "" /\ ~ret.filtered
        ELSE ret.err = "" /\ (ret.filtered <=> (RegexStageFiltered \/ Len(ProgramResults) = 0))

\* The regexps removed the line and the program, which kept it, was still run: it
\* set the highlight.
C25_Witness ==
    /\ ret.op = "Run"
    /\ filter.NoMatchRegex = "hi"
    /\ filter.JQ = "highlight(true)"
    /\ inputLog[1] = RowGood
    /\ ret.filtered
    /\ ret.err = ""
    /\ ret.l.highlight

\* C28: runJQ on a line, by what the program yields.  Nothing: the line is
\* filtered, no error, the line unchanged.  First an object: the fields of the
\* line become the members of the object without the key __highlight, the
\* highlight of the line becomes the value under __highlight when that is a
\* boolean, the line is not filtered, and the error is nil unless there is a
\* second result, which is an error all the same.  First a null, a boolean, a
\* number or an error: an error is returned, the line is not filtered and is
\* unchanged.
C28_OneProgramResultHonored ==
    (ret.op = "runJQ" /\ filter.JQ # "nil") =>
        LET l0 == LineOf(inputLog[1])
            res == JQRun(filter.JQ, l0)
        IN IF Len(res) = 0 THEN ret.filtered /\ ret.err = "" /\ ret.l = l0
           ELSE IF res[1].ty = "object"
                THEN /\ ~ret.filtered
                     /\ ret.l.fields = [k \in (DOMAIN res[1].o) \ {highlightKey} |-> res[1].o[k]]
                     /\ ret.l.highlight =
                           IF highlightKey \in DOMAIN res[1].o /\ res[1].o[highlightKey].ty = "bool"
                           THEN res[1].o[highlightKey] = Bool("true") ELSE l0.highlight
                     /\ [ret.l EXCEPT !.fields = l0.fields, !.highlight = l0.highlight] = l0
                     /\ (ret.err = "") <=> (Len(res) = 1)
                ELSE ~ret.filtered /\ ret.err # "" /\ ret.l = l0

\* The program yielded two objects: the first has replaced the fields and an
\* error is returned.
C28_Witness ==
    /\ ret.op = "runJQ"
    /\ filter.JQ = "{}, {}"
    /\ inputLog[1] = RowGood
    /\ ret.err = "unexpectedly produced more than 1 output"
    /\ ret.l.fields = NoFields
    /\ ~ret.filtered

\* The regexp of the filter.
TheRegexp == IF filter.MatchRegex # "nil" THEN filter.MatchRegex ELSE filter.NoMatchRegex

\* The fields that the capture groups of the regexp rx give for the message msg.
Captures(rx, msg) ==
    CASE rx = "(y)o" /\ msg = "yo" -> {<<"$1", "y">>}
      [] rx = "(?P<state>h)(i)" /\ msg = "hi" -> {<<"state", "h">>, <<"$2", "i">>}
      [] OTHER -> {}

\* The sink holds, for row n, the field k with the value v (or the mark that the
\* value is that of the line before).
FieldIn(n, k, v) ==
    \E i \in DOMAIN sink : sink[i].ty = "F" /\ sink[i].ln = n /\ sink[i].k = k /\ sink[i].v \in {v, "<same>"}

\* C27: the line of every row given to the filter holds, as fields, the capture
\* groups of the regexp's match on its message (a named group under its name, an
\* unnamed one as $ and its number), whether the row is then filtered or not; so
\* every such row that is rendered, as a selected line or as context, shows them.
C27_CapturesStayOnRecord ==
    \A n \in Rendered :
        hist[n].fed =>
            \A c \in Captures(TheRegexp, LineOf(inputLog[n]).msg) : FieldIn(n, c[1], c[2])

\* A row that the match regexp kept and the program then removed is rendered as
\* context, with the captures of the named and of the unnamed group.
C27_Witness ==
    \E n \in Rendered :
        /\ filter.JQ = "select(.a==1)"
        /\ hist[n].filtered
        /\ inputLog[n] = RowHi2
        /\ \E i \in DOMAIN sink : sink[i] = Tok("F", n, "state", "h")
        /\ \E i \in DOMAIN sink : sink[i] = Tok("F", n, "$2", "i")
        /\ n + 1 \in SelectedIn(hist)

\* A regexp field of a scheme holds a compiled pattern or nothing.
Runnable(f) ==
    /\ f.MatchRegex \in {"nil", "hi", "(y)o"}
    /\ f.NoMatchRegex \in {"nil", "hi", "(y)o"}

\* C26: at most one of MatchRegex and NoMatchRegex is ever set.  A call with the
\* empty pattern does nothing; otherwise a call for the kind that is set returns
\* ErrAlreadyAdded, a call for the other kind returns ErrConflict, a call with an
\* invalid pattern returns the error of the compiler, and each of these leaves the
\* scheme as it was; any other call sets its regexp and returns nil.  The scheme
\* holds compiled patterns only, and Run on it returns no error.
C26_RegexesMutuallyExclusive ==
    [][/\ filter'.MatchRegex = "nil" \/ filter'.NoMatchRegex = "nil"
       /\ Runnable(filter')
       /\ ret'.op = "Run" => ret'.err = ""
       /\ hist' # hist =>
             LET c == hist'[Len(hist')]
                 same == IF c.op = "AddMatchRegex" THEN filter.MatchRegex ELSE filter.NoMatchRegex
                 other == IF c.op = "AddMatchRegex" THEN filter.NoMatchRegex ELSE filter.MatchRegex
             IN /\ ret'.err = c.err
                /\ c.err # "" => filter' = filter
                /\ CASE c.rx = "" -> c.err = "" /\ filter' = filter
                     [] c.rx # "" /\ same # "nil" -> c.err = ErrAlreadyAdded
                     [] c.rx # "" /\ same = "nil" /\ other # "nil" -> c.err = ErrConflict
                     [] c.rx = "[" /\ same = "nil" /\ other = "nil" ->
                           c.err \in {"compile regex", "compile"}
                     [] OTHER ->
                           /\ c.err = ""
                           /\ filter' = IF c.op = "AddMatchRegex"
                                         THEN [filter EXCEPT !.MatchRegex = c.rx]
                                         ELSE [filter EXCEPT !.NoMatchRegex = c.rx]]_vars

\* A NoMatchRegex was added, then adding a MatchRegex returned ErrConflict and
\* adding an invalid NoMatchRegex returned ErrAlreadyAdded; Run returns no error.
C26_Witness ==
    /\ Len(hist) = 3
    /\ hist[1] = [op |-> "AddNoMatchRegex", rx |-> "hi", err |-> ""]
    /\ hist[2] = [op |-> "AddMatchRegex", rx |-> "(y)o", err |-> ErrConflict]
    /\ hist[3] = [op |-> "AddNoMatchRegex", rx |-> "[", err |-> ErrAlreadyAdded]
    /\ filter.NoMatchRegex = "hi"
    /\ filter.MatchRegex = "nil"
    /\ ret.op = "Run"
    /\ ret.err = ""

\* The keys of the field tokens among the tokens out, in the order written.
FKeys(out) ==
    LET fs == SelectSeq(out, LAMBDA t : t.ty = "F")
    IN [i \in 1..Len(fs) |-> fs[i].k]

InSeq(q, k) == \E i \in 1..Len(q) : q[i] = k

\* The sequence q without the later occurrences of what it holds more than once.
RECURSIVE FirstOccurrences(_)
FirstOccurrences(q) ==
    IF q = <<>> THEN <<>>
    ELSE LET r == FirstOccurrences(SubSeq(q, 1, Len(q) - 1))
         IN IF InSeq(r, q[Len(q)]) THEN r ELSE Append(r, q[Len(q)])

\* The order Emit is to give the keys ks under the priority fields p and the seen-order
\* list seenFields: [first, then, new].
FieldOrder(p, seenFields, ks) ==
    [first |-> SelectSeq(FirstOccurrences(p), LAMBDA k : k \in ks),
     then |-> SelectSeq(seenFields, LAMBDA k : k \in ks /\ ~InSeq(p, k)),
     new |-> SelectSeq(SortedKeys, LAMBDA k : k \in ks /\ ~InSeq(p, k) /\ ~InSeq(seenFields, k))]

\* C29: Emit renders the fields of a record in this order: the priority fields the
\* record has, in configured order; then the fields of the seen-order list the record
\* has, in first-seen order; then the remaining new fields in sorted order, and these
\* new fields are appended, in that order, to the seen-order list.
C29_PrioritySeenNew ==
    [][\A n \in {Len(hist')} :
          (n = Len(hist) + 1 /\ ~hist'[n].isSeparator) =>
             \E o \in {FieldOrder(outs.PriorityFields, outs.state.seenFields, hist'[n].keys)} :
                /\ FKeys(ret'.out) = o.first \o o.then \o o.new
                /\ outs'.state.seenFields = outs.state.seenFields \o o.new]_vars

\* A record with a priority field, a field seen before and a new field: the priority field
\* comes first, then the seen one, then the new one, against the sorted order.
C29_Witness ==
    /\ ret.op = "Emit"
    /\ outs.PriorityFields = <<"baz">>
    /\ FKeys(ret.out) = <<"baz", "foo", "bar">>
    /\ outs.state.seenFields = <<"foo", "bar">>
    /\ Len(hist) = 2

isPrefix(p, q) == Len(p) <= Len(q) /\ SubSeq(q, 1, Len(p)) = p

\* Key x is written before key y in the tokens out.
Before(out, x, y) ==
    \E i, j \in 1..Len(FKeys(out)) : i < j /\ FKeys(out)[i] = x /\ FKeys(out)[j] = y

NonPriority == {k \in EmitKeys : ~InSeq(outs.PriorityFields, k)}

\* C30: the seen-order list only grows at its end, and two non-priority keys are written
\* in the same relative order on all the records that have both.
C30_SeenOrderAppendOnly ==
    [][/\ isPrefix(outs.state.seenFields, outs'.state.seenFields)
       /\ \A i, j \in 1..Len(hist') : \A x, y \in NonPriority :
             (i < j /\ {x, y} \subseteq hist'[i].keys /\ {x, y} \subseteq hist'[j].keys)
                => (Before(hist'[i].out, x, y) <=> Before(hist'[j].out, x, y))]_vars

\* foo was seen before bar, and the two later records that have both write foo before
\* bar, against the sorted order.
C30_Witness ==
    /\ Len(hist) = 3
    /\ hist[1].keys = {"foo"}
    /\ hist[2].keys = {"foo", "bar"}
    /\ hist[3].keys = {"foo", "bar", "baz"}
    /\ outs.PriorityFields = <<>>
    /\ outs.state.seenFields = <<"foo", "bar", "baz">>
    /\ Before(hist[2].out, "foo", "bar") /\ Before(hist[3].out, "foo", "bar")

\* The records rendered so far: the calls of Emit that were not for a separator.
RenderedCalls(h) == {i \in 1..Len(h) : ~h[i].isSeparator}

\* The value written for the key k among the tokens out.
Written(out, k) == out[CHOOSE i \in DOMAIN out : out[i].ty = "F" /\ out[i].k = k].v

\* The latest rendered record in h has the key k with a value serialized as s.
Repeats(h, k, s) ==
    /\ RenderedCalls(h) # {}
    /\ Has(h[MaxOf(RenderedCalls(h))].fields, k)
    /\ h[MaxOf(RenderedCalls(h))].fields[k].s = s

\* The latest rendered record in h has the key k with a value not serialized as s.
Differs(h, k, s) ==
    /\ RenderedCalls(h) # {}
    /\ Has(h[MaxOf(RenderedCalls(h))].fields, k)
    /\ h[MaxOf(RenderedCalls(h))].fields[k].s # s

\* C31: when the record rendered just before has the same key with an equal serialized
\* value, the field is written as the mark of a repeated value (by the formatter of the
\* tests and by DefaultOutputFormatter with ElideDuplicateFields), whatever the number of
\* repeats before; with a different value it is written literally.  In both cases the
\* value of the record is the remembered one afterwards.
C31_RepeatedValueElided ==
    [][\A n \in {Len(hist')} : \A k \in ElideKeys :
          (n = Len(hist) + 1 /\ ~hist'[n].isSeparator /\ Has(hist'[n].fields, k)) =>
             \E v \in {hist'[n].fields[k]} :
                \E d \in {DefaultFormatField(TRUE, outs.state, k, v)} :
                   /\ Repeats(hist, k, v.s) =>
                         Written(ret'.out, k) = "<same>" /\ d.value = Placeholder
                   /\ Differs(hist, k, v.s) =>
                         Written(ret'.out, k) = v.s /\ d.value = v.s
                   /\ outs'.state.lastFields[k] = v.s
                   /\ d.st.lastFields[k] = v.s]_vars

\* Three records in a row with a = 1 (the second and the third written as repeats), with
\* b = 1 and then b = 2 and again b = 2: b is written literally on the second record and
\* as a repeat on the third.
C31_Witness ==
    /\ Len(hist) = 3
    /\ \A i \in 1..3 : hist[i].keys = {"a", "b"} /\ hist[i].fields["a"].s = "1"
    /\ hist[1].fields["b"].s = "1" /\ hist[2].fields["b"].s = "2" /\ hist[3].fields["b"].s = "2"
    /\ Written(hist[2].out, "a") = "<same>" /\ Written(hist[3].out, "a") = "<same>"
    /\ Written(hist[2].out, "b") = "2" /\ Written(hist[3].out, "b") = "<same>"
    /\ outs.state.lastFields["b"] = "2"

\* C32: a field is written as the mark of a repeated value only if the record rendered
\* just before has the same key with an equal serialized value; after a record is
\* rendered, the remembered keys are the keys of that record and no others.
C32_ElidedOnlyAgainstPreviousRecord ==
    [][\A n \in {Len(hist')} :
          (n = Len(hist) + 1 /\ ~hist'[n].isSeparator) =>
             /\ \A k \in hist'[n].keys :
                   Written(ret'.out, k) = "<same>" => Repeats(hist, k, hist'[n].fields[k].s)
             /\ DOMAIN outs'.state.lastFields = hist'[n].keys]_vars

\* a = 1, then a record without a, then a = 1 again, written literally.
C32_Witness ==
    /\ Len(hist) = 3
    /\ \A i \in 1..3 : ~hist[i].isSeparator
    /\ Has(hist[1].fields, "a") /\ hist[1].fields["a"].s = "1"
    /\ hist[2].keys = {"b"}
    /\ Has(hist[3].fields, "a") /\ hist[3].fields["a"].s = "1"
    /\ Written(hist[3].out, "a") = "1"

\* A step in which a call of Read returns.
ReadReturns == reader'.reads = reader.reads + 1

\* A step in which the select of Read takes the signal.
SignalTaken == reader.at = "select" /\ reader'.at = "idle" /\ reader'.sigCh < reader.sigCh

\* C33 as stated: when the select of Read takes the signal, the underlying reader is
\* closed and Read returns ErrInterrupted.
C33_ReturnsErrInterrupted ==
    [][SignalTaken => ret'.err = ErrInterrupted /\ reader'.under = "closed"]_vars

\* C33: a call of Read that is in its select with a signal in the channel returns, also
\* when the underlying read never does.  When it takes the signal it calls Close, leaves
\* the goroutine as it is and returns no bytes with ErrInterrupted, or, when closing the
\* underlying reader fails, with an error that wraps ErrInterrupted; a call that returns
\* from its select while the underlying read has not returned has taken the signal.
C33_InterruptedReadReturns ==
    /\ [][/\ SignalTaken =>
                /\ reader'.closed /\ ~reader'.notify
                /\ ret' = [op |-> "Read", n |-> 0,
                           err |-> IF reader'.under = "closed" THEN ErrInterrupted
                                   ELSE ErrCloseAfterInterrupt]
                /\ IsInterrupted(ret'.err)
                /\ reader'.go = reader.go /\ reader'.p = reader.p
          /\ (ReadReturns /\ reader.at = "select" /\ reader.go = "reading") => SignalTaken]_vars
    /\ ((reader.at = "select" /\ reader.sigCh > 0) ~> (reader.at = "idle"))

\* Read has returned ErrInterrupted with the underlying reader closed, while the
\* underlying read has not returned.
C33_Witness ==
    /\ ret = [op |-> "Read", n |-> 0, err |-> ErrInterrupted]
    /\ reader.at = "idle" /\ reader.go = "reading"
    /\ reader.closed /\ reader.under = "closed"

\* C38: the slice of the caller changes only in the step in which Read returns the bytes
\* of an underlying read that has returned, and then to those bytes; once the Reader is
\* closed (as it is after ErrInterrupted) the slice never changes, whatever the
\* goroutine still reads, and every call of Read returns no bytes and ErrClosed.
C38_CallerSliceSafeAfterInterrupt ==
    [][/\ reader'.p # reader.p =>
            /\ reader.at = "select" /\ reader.go = "done" /\ ReadReturns
            /\ ret' = [op |-> "Read", n |-> 1, err |-> ""]
            /\ reader'.p = reader.buf
       /\ reader.closed => reader'.p = reader.p
       /\ (reader.closed /\ ReadReturns) => ret' = [op |-> "Read", n |-> 0, err |-> ErrClosed]]_vars

\* After Read returned on a signal, the underlying read returned a byte, which is not in
\* the slice of the caller, and a later call of Read returned ErrClosed.
C38_Witness ==
    /\ \E i \in DOMAIN hist : hist[i].outcome = "byte" /\ hist[i].closed /\ hist[i].at = "idle"
    /\ reader.go = "done" /\ reader.buf # reader.p
    /\ ret = [op |-> "Read", n |-> 0, err |-> ErrClosed]

\* C34: Emit of a separator writes the separator line and nothing else, and leaves the
\* State as it was (seenFields, lastFields, lastTime, timePadding); so a value that
\* repeats the one of the record before the separator is still written as a repeat.
C34_SeparatorLeavesState ==
    [][\A n \in {Len(hist')} :
          /\ (n = Len(hist) + 1 /\ hist'[n].isSeparator) =>
                /\ ret'.out = <<Tok("SEP", 0, "", "---"), Tok("NL", 0, "", "")>>
                /\ sink' = sink \o ret'.out
                /\ outs'.state = outs.state
          /\ (n = Len(hist) + 1 /\ n >= 3 /\ ~hist'[n].isSeparator /\ hist[n - 1].isSeparator
                 /\ ~hist[n - 2].isSeparator) =>
                \A k \in hist'[n].keys \cap hist[n - 2].keys :
                   hist'[n].fields[k].s = hist[n - 2].fields[k].s
                      => Written(ret'.out, k) = "<same>"]_vars

\* A record with a = 1, a separator, and a record with a = 1 again, written as a repeat.
C34_Witness ==
    /\ Len(hist) = 3
    /\ Has(hist[1].fields, "a") /\ hist[1].fields["a"] = Num("1")
    /\ hist[2].isSeparator
    /\ hist[2].out = <<Tok("SEP", 0, "", "---"), Tok("NL", 0, "", "")>>
    /\ Has(hist[3].fields, "a") /\ hist[3].fields["a"] = Num("1")
    /\ Written(hist[3].out, "a") = "<same>"
    /\ outs.state.seenFields # <<>> /\ outs.state.lastFields # NoFields

\* A step of ReadLog that reads a row.
RowRead == Len(inputLog') = Len(inputLog) + 1 /\ last'.ln = Len(inputLog')

\* C35: when ReadLog goes on to the next row, all that the row just read produced (the
\* lines released by ctx.Print as Emit wrote them, separator included, then the raw row
\* where it is echoed) has been appended to what the writer accepted, and buf is empty.
\* buf is left with content only after a failed write, which ends ReadLog.
C35_FlushedBeforeNextRow ==
    [][RowRead =>
         /\ pc' = "loop" =>
               /\ last'.left = <<>>
               /\ sink' = sink \o last'.buf
                          \o (IF last'.writeRawLine THEN RawLine(inputLog'[last'.ln], last'.ln)
                              ELSE <<>>)
         /\ last'.left # <<>> => (last'.writeError /\ pc' = "returned")]_vars

\* A row for which ReadLog wrote a separator, a line of context and the selected line at
\* once, and goes on.
C35_Witness ==
    /\ pc = "loop"
    /\ Len(last.released) = 3 /\ last.released[1].isSeparator
    /\ last.left = <<>>
    /\ Len(sink) > Len(last.buf) /\ last.buf # <<>>
    /\ SubSeq(sink, Len(sink) - Len(last.buf) + 1, Len(sink)) = last.buf

\* C36: in strict mode a row with a parse error is given neither to the filter nor to
\* ctx.Print: it is not filtered and not counted in sum.Filtered, the context (its
\* buffer of lines, printAfter and its line counter) is as before, nothing is released
\* or formatted, and the raw row is what is written, whatever the filter.
C36_StrictParseErrorBypassesFilter ==
    [][(RowRead /\ ins.Strict /\ last'.parseErr) =>
          /\ ~last'.filtered /\ ~last'.filterErr
          /\ sum'.Filtered = sum.Filtered
          /\ sum'.Errors = sum.Errors + 1
          /\ ~hist'[last'.ln].fed
          /\ ctx' = ctx
          /\ last'.released = <<>> /\ last'.buf = <<>>
          /\ last'.writeRawLine
          /\ ~last'.writeError =>
                sink' = sink \o RawLine(inputLog'[last'.ln], last'.ln)]_vars

\* In strict mode, under a program that removes every line without a = 1, the row after a
\* selected one is not JSON: it is echoed raw, nothing is counted as filtered, and the line
\* of after-context is still due.
C36_Witness ==
    /\ ins.Strict /\ filter.JQ = "select(.a==1)"
    /\ Len(inputLog) = 2 /\ inputLog[1] = RowGood /\ inputLog[2] = RowText
    /\ last.parseErr /\ ~last.writeError
    /\ RawIn(sink, 2)
    /\ sum.Filtered = 0
    /\ ctx.After = 1 /\ ctx.printAfter = 1
    /\ pc = "loop"

\* C37: after any number of calls of ctx.Print, the buffer holds at most Before lines,
\* printAfter is between 0 and After, lastPrint is at most line (the number of calls),
\* and the buffer is empty whenever printAfter is positive.
C37_ContextInvariant ==
    /\ Len(ctx.lines) <= ctx.Before
    /\ 0 <= ctx.printAfter /\ ctx.printAfter <= ctx.After
    /\ ctx.lastPrint <= ctx.line
    /\ ctx.line = Len(hist)
    /\ ctx.printAfter > 0 => ctx.lines = <<>>

\* With windows of two lines: a full buffer was released by a selected line, the lines
\* of after-context are due, and the buffer is empty.
C37_Witness ==
    /\ ctx.Before = 2 /\ ctx.After = 2
    /\ Len(hist) = 4 /\ ~hist[1].selected /\ ~hist[2].selected /\ ~hist[3].selected
    /\ hist[4].selected
    /\ Len(last.released) = 3
    /\ ctx.printAfter = 2 /\ ctx.lines = <<>> /\ ctx.lastPrint = 4 /\ ctx.line = 4

NoDuplicates(q) == \A i, j \in 1..Len(q) : q[i] = q[j] => i = j

\* C39: Emit writes each field of the record once and no other field, also when a key is
\* listed twice in PriorityFields; and no key is twice in the seen-order list.
C39_EachFieldOnce ==
    [][\A n \in {Len(hist')} :
          /\ (n = Len(hist) + 1 /\ ~hist'[n].isSeparator) =>
                /\ NoDuplicates(FKeys(ret'.out))
                /\ {FKeys(ret'.out)[i] : i \in 1..Len(FKeys(ret'.out))} = hist'[n].keys
          /\ NoDuplicates(outs'.state.seenFields)]_vars

\* Under PriorityFields baz, baz: a record with the three keys after a record with two of
\* them; baz is written once, and the seen-order list holds foo and bar once each.
C39_Witness ==
    /\ outs.PriorityFields = <<"baz", "baz">>
    /\ Len(hist) = 2
    /\ hist[1].keys = {"foo", "baz"} /\ hist[2].keys = {"foo", "bar", "baz"}
    /\ FKeys(ret.out) = <<"baz", "foo", "bar">>
    /\ outs.state.seenFields = <<"foo", "bar">>

\* C40: two runs of runRegexp with the same regexp, scope and line return the same match
\* result and leave the same fields on the line.
C40_RunRegexpDeterministic ==
    Len(hist) = 2 => hist[1] = hist[2]

\* The fields f without the capture groups.
NoCaptures(f) == [k \in (DOMAIN f) \ {"$1", "$2", "state"} |-> f[k]]

\* What holds of two runs of runRegexp with the same regexp, scope and line: they return
\* the same match result and differ at most in the values of the capture groups; and they
\* leave the same fields when the message matches in scope.
C40_MatchResultDeterministic ==
    Len(hist) = 2 =>
        /\ hist[1].found = hist[2].found
        /\ DOMAIN hist[1].fields = DOMAIN hist[2].fields
        /\ NoCaptures(hist[1].fields) = NoCaptures(hist[2].fields)
        /\ (InScope(filter.Scope, RegexpScopeMessage)
              /\ Found(filter.MatchRegex, LineOf(inputLog[1]), RegexpScopeMessage))
                 => hist[1] = hist[2]

\* Two runs on a line with the keys a and b under a regexp that both keys match: one run
\* left the capture a and the other the capture b.
C40_Witness ==
    /\ Len(hist) = 2
    /\ hist[1].found /\ hist[2].found
    /\ inputLog[1] = RowTwo /\ filter.MatchRegex = "^(a|b)$"
    /\ hist[1].fields["$1"] = Str("a") /\ hist[2].fields["$1"] = Str("b")

====
